---- MODULE Spec2Model ----
(***************************************************************************)
(* Model of the rip-job backend: JobStore (services/job_store.py),         *)
(* TokenStore (services/token_store.py), RipRunner (services/rip_runner.py)*)
(* the request handlers (api/routes/rips.py) and the CleanupThread         *)
(* (services/cleanup.py).                                                  *)
(*                                                                         *)
(* Every JobStore method body runs under JobStore._lock and every          *)
(* TokenStore method except resolve() runs under TokenStore._lock, so one  *)
(* method call (one lock section) is one atomic step.  The request         *)
(* handlers are "async def" without any await and therefore run one at a   *)
(* time on the event loop, but the runner threads of the executor and the  *)
(* cleanup thread interleave with them between any two store calls.        *)
(***************************************************************************)
EXTENDS Integers, Sequences, FiniteSets, TLC

\* ------------------------------------------------------------------ bounds
\* Number of job ids uuid4() hands out in one behaviour.
MaxJobs == 2
\* Number of distinct session cookies in circulation.
MaxSessions == 2
\* The clock runs from 0 to MaxTime.
MaxTime == 1
\* Number of token strings uuid4().hex hands out in one behaviour.
MaxTokens == 3
\* Number of append_log calls per job in the log specification.
MaxAppends == 5
\* Settings.job_log_limit, scaled down (the program's default is 1000).
LogLimit == 2
\* Cancel requests (DELETE /v1/rips/{job_id}) that find the session's own job,
\* in one behaviour.
MaxCancels == 1
\* Lines the mirroring subprocess writes before it exits.
MaxLines == 1
\* Faults of the environment in one behaviour: a driver that fails to start or
\* to answer, a missing or failing mirroring tool, an archive below the size
\* floor, a directory that cannot be deleted.
MaxFaults == 1

\* ------------------------------------------------------------ core/config.py
\* Settings.queue_limit (ge=1), Settings.job_ttl_seconds (in clock ticks) and
\* Settings.max_workers (ge=1), at the smallest values the validators accept.
QueueLimit == 1
TTL == 1
MaxWorkers == 1

\* ------------------------------------------------------------- python None
NoneInt == -1
NoneStr == "None"

\* ---------------------------------------------------------------- state
VARIABLES
    jobs,           \* JobStore._jobs: job id -> Job
    cancel_events,  \* JobStore._cancel_events: job id -> Event.is_set()
    tokens,         \* TokenStore table download_tokens, rows in rowid order
    uuid_job,       \* next job id str(uuid4()) returns
    uuid_tok,       \* next token uuid4().hex returns
    now,            \* datetime.now(tz=utc)
    lresp,          \* what the last JobStore log call returned
    appended,       \* job id -> cursors append_log assigned so far, in order
    tres,           \* what the last TokenStore call returned
    rsv,            \* TokenStore.resolve in flight between SELECT and DELETE
    tasks,          \* job id -> the executor task running RipRunner.run for it
    queue,          \* ThreadPoolExecutor work queue: submitted tasks not yet started
    req,            \* the request handler the event loop is running
    sweep,          \* CleanupThread._prune: where it is and the stale jobs left
    dirs,           \* job ids whose working directory jobs_root / job_id exists
    cancelled_as,   \* job id -> the status request_cancel found when it returned True
    ncancel,        \* cancel requests received so far
    nfault,         \* environment faults so far (see MaxFaults)
    nsession        \* session cookies get_or_create_session_id has minted so far

vars == <<jobs, cancel_events, tokens, uuid_job, uuid_tok, now, lresp, appended, tres, rsv,
          tasks, queue, req, sweep, dirs, cancelled_as, ncancel, nfault, nsession>>

\* The variables only the runner, the handlers and the cleanup thread use.
appVars == <<tasks, queue, req, sweep, dirs, cancelled_as, ncancel, nfault, nsession>>

JobIds == 1..MaxJobs
Sessions == 1..MaxSessions
TokenIds == 1..MaxTokens
Times == 0..MaxTime

Levels == {"info", "warn", "error"}

\* ------------------------------------------------------------ sequences
RECURSIVE SeqFilterCursor(_, _)
\* [log for log in job.logs if log.cursor >= since]
SeqFilterCursor(logs, since) ==
    IF logs = <<>> THEN <<>>
    ELSE IF Head(logs).cursor >= since
         THEN <<Head(logs)>> \o SeqFilterCursor(Tail(logs), since)
         ELSE SeqFilterCursor(Tail(logs), since)

\* Python's seq[-n:] for n >= 1.
LastN(seq, n) ==
    IF Len(seq) > n THEN SubSeq(seq, Len(seq) - n + 1, Len(seq)) ELSE seq

\* ------------------------------------------------------------ models/job.py
\* LogEntry; its timestamp is only ever copied into updated_at and the DTO, so
\* the entry keeps the three fields the code reads.
LogEntry(cursor, level, message) ==
    [cursor |-> cursor, level |-> level, message |-> message]

\* Job; created_at is written once and read only by the DTO, and is left out.
Job(job_id, theme_url, session_id, t) ==
    [job_id |-> job_id, theme_url |-> theme_url, session_id |-> session_id,
     status |-> "queued", updated_at |-> t,
     logs |-> <<>>, next_cursor |-> 0,
     artifact_path |-> NoneStr, download_size |-> NoneInt, error |-> NoneStr,
     expires_at |-> NoneInt, download_token |-> NoneInt, cancel_requested |-> FALSE]

\* ------------------------------------------------------ JobStore: the logs
Has(js, id) == id \in DOMAIN js

\* JobStore.create: the new record and its cancellation Event.
create(js, id, theme_url, session_id, t) == js @@ (id :> Job(id, theme_url, session_id, t))

\* A plausible slip: the cursor taken from the length of the retained list.
assign_cursor_from_len(job) == Len(job.logs)

\* entry.cursor = job.next_cursor
assign_cursor(job) == job.next_cursor

\* A plausible slip: the trim keeps the oldest entries instead of the newest.
trim_keep_oldest(logs) ==
    IF Len(logs) > LogLimit THEN SubSeq(logs, 1, LogLimit) ELSE logs

\* if len(job.logs) > self._log_limit: job.logs = job.logs[-self._log_limit:]
trim(logs) ==
    IF Len(logs) > LogLimit THEN LastN(logs, LogLimit) ELSE logs

\* JobStore.append_log, the lock section (the job exists).
append_log(js, id, level, message, t) ==
    LET job == js[id]
        entry == LogEntry(assign_cursor(job), level, message)
    IN  [js EXCEPT ![id] =
            [job EXCEPT !.logs = trim(Append(job.logs, entry)),
                        !.next_cursor = job.next_cursor + 1,
                        !.updated_at = t]]

\* return entry: the cursor of the entry append_log has just stored.
returned_cursor(js, id) == js[id].logs[Len(js[id].logs)].cursor

\* A plausible slip: ">" for ">=" in the filter.
entries_after(logs, since) == SeqFilterCursor(logs, since + 1)

\* entries = [log for log in job.logs if log.cursor >= since]
entries_since(logs, since) == SeqFilterCursor(logs, since)

\* A plausible slip: ">=" for ">" in the truncation test.
has_more_inclusive(entries, since, next_cursor) ==
    \/ entries # <<>> /\ entries[1].cursor >= since
    \/ entries # <<>> /\ entries[Len(entries)].cursor < next_cursor - 1

\* truncated = bool(entries) and entries[0].cursor > since
\* has_more = truncated or (bool(entries) and entries[-1].cursor < job.next_cursor - 1)
has_more_of(entries, since, next_cursor) ==
    \/ entries # <<>> /\ entries[1].cursor > since
    \/ entries # <<>> /\ entries[Len(entries)].cursor < next_cursor - 1

\* JobStore.get_logs_since, the lock section (the job exists).
get_logs_since(js, id, since) ==
    LET job == js[id]
        entries == entries_since(job.logs, since)
    IN  [entries |-> entries, next_cursor |-> job.next_cursor,
         has_more |-> has_more_of(entries, since, job.next_cursor)]

\* ------------------------------------------------- JobStore: the job state
ActiveStatuses == {"queued", "running"}

\* JobStore.mark_running, the lock section (the job exists).
mark_running(js, id, t) ==
    [js EXCEPT ![id] = [@ EXCEPT !.status = "running", !.updated_at = t]]

\* The size floor with the boundary on the wrong side: 100 KiB itself refused.
too_small_inclusive(size) == size # NoneInt /\ size <= 100 * 1024

\* if size is not None and size < 100 * 1024
too_small(size) == size # NoneInt /\ size < 100 * 1024

\* JobStore.mark_succeeded, the lock section, with token = issue_token(...).
mark_succeeded(js, id, artifact_path, size, t, token) ==
    [js EXCEPT ![id] = [@ EXCEPT !.status = "succeeded", !.updated_at = t,
                                 !.artifact_path = artifact_path,
                                 !.download_size = size,
                                 !.expires_at = t + TTL,
                                 !.download_token = token]]

\* A mark_failed that fails every job of the store, not only the one named.
mark_failed_every_job(js, id, error, t, token) ==
    [k \in DOMAIN js |-> [js[k] EXCEPT !.status = "failed", !.error = error,
                                       !.updated_at = t,
                                       !.expires_at = t + TTL,
                                       !.download_token = IF k = id THEN token ELSE @,
                                       !.cancel_requested = FALSE,
                                       !.download_size = NoneInt]]

\* JobStore.mark_failed, the lock section, with token = issue_token(...).
mark_failed(js, id, error, t, token) ==
    [js EXCEPT ![id] = [@ EXCEPT !.status = "failed", !.error = error,
                                 !.updated_at = t,
                                 !.expires_at = t + TTL,
                                 !.download_token = token,
                                 !.cancel_requested = FALSE,
                                 !.download_size = NoneInt]]

\* JobStore.mark_cancelled, the lock section.
mark_cancelled(js, id, t) ==
    [js EXCEPT ![id] = [@ EXCEPT !.status = "cancelled", !.updated_at = t,
                                 !.cancel_requested = TRUE,
                                 !.artifact_path = NoneStr, !.error = NoneStr,
                                 !.expires_at = NoneInt, !.download_token = NoneInt]]

\* JobStore.active_count
active_count(js) == Cardinality({id \in DOMAIN js : js[id].status \in ActiveStatuses})

\* JobStore.active_job_for_session: the first such job in dict order, or None.
active_job_for_session(js, session_id) ==
    LET S == {id \in DOMAIN js :
                js[id].session_id = session_id /\ js[id].status \in ActiveStatuses}
    IN  IF S = {} THEN NoneInt ELSE CHOOSE id \in S : \A k \in S : id <= k

\* JobStore.request_cancel, the job record after the lock section.
request_cancel(js, id, t) ==
    [js EXCEPT ![id] =
        IF @.status = "queued"
        THEN [@ EXCEPT !.cancel_requested = TRUE, !.status = "cancelled", !.updated_at = t]
        ELSE [@ EXCEPT !.cancel_requested = TRUE]]

\* JobStore.is_cancelled
is_cancelled(ev, id) == IF id \in DOMAIN ev THEN ev[id] ELSE FALSE

\* A pop that leaves the entry where it is.
pop_keep(d, id) == d

\* dict.pop(job_id, None)
pop(d, id) == [k \in DOMAIN d \ {id} |-> d[k]]

RECURSIVE Ascending(_)
\* The ids of S in dict (insertion) order.
Ascending(S) ==
    IF S = {} THEN <<>>
    ELSE LET m == CHOOSE x \in S : \A y \in S : x <= y
         IN  <<m>> \o Ascending(S \ {m})

\* A listing that takes every job old enough, whatever its status.
list_stale_jobs_any_status(js, cutoff) ==
    Ascending({id \in DOMAIN js : js[id].updated_at <= cutoff})

\* JobStore.list_stale_jobs: the ids of the copies returned, in dict order.
list_stale_jobs(js, cutoff) ==
    Ascending({id \in DOMAIN js :
                 js[id].status \in {"succeeded", "failed"} /\ js[id].updated_at <= cutoff})

\* ------------------------------------------------------------- TokenStore
\* datetime.isoformat() / datetime.fromisoformat() of the TEXT column.
isoformat(t) == <<"iso", t>>
fromisoformat(s) == s[2]

Row(token, job_id, expires_at) ==
    [token |-> token, job_id |-> job_id, expires_at |-> isoformat(expires_at)]

NoRow == [token |-> NoneInt, job_id |-> NoneInt, expires_at |-> isoformat(NoneInt)]

RECURSIVE SeqFilterRows(_, _, _)
\* The rows of tb whose column col differs from v, in rowid order.
SeqFilterRows(tb, col, v) ==
    IF tb = <<>> THEN <<>>
    ELSE IF Head(tb)[col] # v
         THEN <<Head(tb)>> \o SeqFilterRows(Tail(tb), col, v)
         ELSE SeqFilterRows(Tail(tb), col, v)

\* SELECT ... WHERE col = v ... fetchone(): the first matching row, or None.
fetchone(tb, col, v) ==
    IF \E i \in DOMAIN tb : tb[i][col] = v
    THEN tb[CHOOSE i \in DOMAIN tb :
                /\ tb[i][col] = v
                /\ \A k \in DOMAIN tb : tb[k][col] = v => i <= k]
    ELSE NoRow

\* A plausible slip: the expired row is left in the table.
delete_for_job_noop(tb, job_id) == tb

\* DELETE FROM download_tokens WHERE job_id = ?
delete_for_job(tb, job_id) == SeqFilterRows(tb, "job_id", job_id)

\* DELETE FROM download_tokens WHERE token = ?
delete_token(tb, token) == SeqFilterRows(tb, "token", token)

\* A plausible slip: ">" for ">=" in the validity test.
expiry_valid_strict(stored_expiry, t) == fromisoformat(stored_expiry) > t

\* expiry_dt >= datetime.now(tz=timezone.utc)
expiry_valid(stored_expiry, t) == fromisoformat(stored_expiry) >= t

\* TokenStore._get_valid_token: the token returned (NoneInt for None) and the table.
get_valid_token(tb, job_id, t) ==
    LET row == fetchone(tb, "job_id", job_id)
    IN  IF row = NoRow THEN [token |-> NoneInt, table |-> tb]
        ELSE IF expiry_valid(row.expires_at, t) THEN [token |-> row.token, table |-> tb]
        ELSE [token |-> NoneInt, table |-> delete_for_job(tb, job_id)]

\* TokenStore.issue_token with fresh = uuid4().hex: the token returned and the table.
issue_token(tb, job_id, expires_at, t, fresh) ==
    LET got == get_valid_token(tb, job_id, t)
    IN  IF got.token # NoneInt THEN [token |-> got.token, table |-> tb, minted |-> FALSE]
        ELSE [token |-> fresh,
              table |-> Append(got.table, Row(fresh, job_id, expires_at)),
              minted |-> TRUE]

\* TokenStore.resolve, the SELECT and the expiry test: "absent", "expired" or "ok".
resolve_select(tb, token, t) ==
    LET row == fetchone(tb, "token", token)
    IN  IF row = NoRow THEN "absent"
        ELSE IF fromisoformat(row.expires_at) < t THEN "expired"
        ELSE "ok"

NoTres == [op |-> "none", job_id |-> NoneInt, pre |-> NoRow, token |-> NoneInt, at |-> NoneInt]
NoRsv == [pc |-> "idle", token |-> NoneInt]
NoLresp == [op |-> "none", job_id |-> NoneInt, since |-> NoneInt, entries |-> <<>>,
            next_cursor |-> NoneInt, has_more |-> FALSE, cursor |-> NoneInt]

NoReq == [op |-> "none", pc |-> "idle", job_id |-> NoneInt, session_id |-> NoneInt,
          theme_url |-> NoneStr, seen |-> NoneStr, outcome |-> NoneInt]
NoSweep == [pc |-> "idle", stale |-> <<>>]

\* Nothing submitted, no request in flight, the cleanup thread waiting.
AppIdle ==
    /\ tasks = <<>>
    /\ queue = <<>>
    /\ req = NoReq
    /\ sweep = NoSweep
    /\ dirs = {}
    /\ cancelled_as = <<>>
    /\ ncancel = 0
    /\ nfault = 0
    /\ nsession = 0

\* ------------------------------------------------------------------ clock
Tick ==
    /\ req.pc # "done"
    /\ now < MaxTime
    /\ now' = now + 1
    /\ UNCHANGED <<jobs, cancel_events, tokens, uuid_job, uuid_tok, lresp, appended, tres, rsv>>
    /\ UNCHANGED appVars

\* =================================================== the log specification
\* One job, as JobStore.create leaves it, and any sequence of append_log and
\* get_logs_since calls on it.
LogInit ==
    /\ jobs = create(<<>>, 1, "https://themeforest.net/item/x/1", 1, 0)
    /\ cancel_events = (1 :> FALSE)
    /\ tokens = <<>>
    /\ uuid_job = 2
    /\ uuid_tok = 1
    /\ now = 0
    /\ lresp = NoLresp
    /\ appended = (1 :> <<>>)
    /\ tres = NoTres
    /\ rsv = NoRsv
    /\ AppIdle

LogAppend ==
    \E id \in DOMAIN jobs, level \in Levels :
        /\ Len(appended[id]) < MaxAppends
        /\ jobs' = append_log(jobs, id, level, "line", now)
        /\ appended' = [appended EXCEPT ![id] = Append(@, returned_cursor(jobs', id))]
        /\ lresp' = [NoLresp EXCEPT !.op = "append_log", !.job_id = id,
                                    !.cursor = returned_cursor(jobs', id)]
        /\ UNCHANGED <<cancel_events, tokens, uuid_job, uuid_tok, now, tres, rsv>>
        /\ UNCHANGED appVars

LogGetSince ==
    \E id \in DOMAIN jobs, since \in 0..(MaxAppends + 1) :
        /\ lresp' = LET r == get_logs_since(jobs, id, since)
                    IN  [NoLresp EXCEPT !.op = "get_logs_since", !.job_id = id,
                                        !.since = since, !.entries = r.entries,
                                        !.next_cursor = r.next_cursor,
                                        !.has_more = r.has_more]
        /\ UNCHANGED <<jobs, cancel_events, tokens, uuid_job, uuid_tok, now, appended, tres, rsv>>
        /\ UNCHANGED appVars

LogNext == LogAppend \/ LogGetSince \/ Tick

SpecLogs == LogInit /\ [][LogNext]_vars

\* ================================================= the token specification
\* The registry alone, under any interleaving of its four operations as the
\* request path, the runners and the cleanup thread call them.
TokenInit ==
    /\ jobs = <<>>
    /\ cancel_events = <<>>
    /\ tokens = <<>>
    /\ uuid_job = 1
    /\ uuid_tok = 1
    /\ now = 0
    /\ lresp = NoLresp
    /\ appended = <<>>
    /\ tres = NoTres
    /\ rsv = NoRsv
    /\ AppIdle

TokIssue ==
    \E job_id \in JobIds, expires_at \in Times :
        /\ uuid_tok <= MaxTokens
        /\ LET r == issue_token(tokens, job_id, expires_at, now, uuid_tok)
           IN  /\ tokens' = r.table
               /\ uuid_tok' = IF r.minted THEN uuid_tok + 1 ELSE uuid_tok
               /\ tres' = [op |-> "issue_token", job_id |-> job_id,
                           pre |-> fetchone(tokens, "job_id", job_id),
                           token |-> r.token, at |-> now]
        /\ UNCHANGED <<jobs, cancel_events, uuid_job, now, lresp, appended, rsv>>
        /\ UNCHANGED appVars

\* resolve(): the SELECT and the expiry test, outside the lock.
TokResolveSelect ==
    \E token \in TokenIds :
        /\ rsv.pc = "idle"
        /\ LET r == resolve_select(tokens, token, now)
           IN  /\ rsv' = IF r = "expired" THEN [pc |-> "delete", token |-> token] ELSE NoRsv
               /\ tres' = [NoTres EXCEPT !.op = "resolve", !.token = token,
                                         !.pre = IF r = "ok" THEN fetchone(tokens, "token", token)
                                                 ELSE NoRow,
                                         !.at = now]
        /\ UNCHANGED <<jobs, cancel_events, tokens, uuid_job, uuid_tok, now, lresp, appended>>
        /\ UNCHANGED appVars

\* resolve(): self.delete_token(token) of the expired row; returns None.
TokResolveDelete ==
    /\ rsv.pc = "delete"
    /\ tokens' = delete_token(tokens, rsv.token)
    /\ rsv' = NoRsv
    /\ tres' = NoTres
    /\ UNCHANGED <<jobs, cancel_events, uuid_job, uuid_tok, now, lresp, appended>>
    /\ UNCHANGED appVars

TokDeleteToken ==
    \E token \in TokenIds :
        /\ tokens' = delete_token(tokens, token)
        /\ tres' = NoTres
        /\ UNCHANGED <<jobs, cancel_events, uuid_job, uuid_tok, now, lresp, appended, rsv>>
        /\ UNCHANGED appVars

TokDeleteForJob ==
    \E job_id \in JobIds :
        /\ tokens' = delete_for_job(tokens, job_id)
        /\ tres' = NoTres
        /\ UNCHANGED <<jobs, cancel_events, uuid_job, uuid_tok, now, lresp, appended, rsv>>
        /\ UNCHANGED appVars

TokenNext ==
    \/ TokIssue
    \/ TokResolveSelect
    \/ TokResolveDelete
    \/ TokDeleteToken
    \/ TokDeleteForJob
    \/ Tick

SpecTokens == TokenInit /\ [][TokenNext]_vars

\* ===================================================== the application
\* create_app(): empty stores, an idle executor, the cleanup thread waiting.
Init ==
    /\ jobs = <<>>
    /\ cancel_events = <<>>
    /\ tokens = <<>>
    /\ uuid_job = 1
    /\ uuid_tok = 1
    /\ now = 0
    /\ lresp = NoLresp
    /\ appended = <<>>
    /\ tres = NoTres
    /\ rsv = NoRsv
    /\ AppIdle

Urls == {"https://themeforest.net/item/x/1",
         "https://preview.themeforest.net/item/x/full_screen_preview/1"}

\* A marker test that never finds the marker.
has_preview_marker_never(theme_url) == FALSE

\* "full_screen_preview" in theme_url
has_preview_marker(theme_url) ==
    theme_url = "https://preview.themeforest.net/item/x/full_screen_preview/1"

\* The sizes the archive file can have: just below the floor, and the floor.
ArchiveSizes == {100 * 1024 - 1, 100 * 1024}

\* The exit codes of the mirroring tool: success, partial failure, hard failure.
ExitCodes == {0, 8, 1}

KeyErrorText == "Job not found"

NewTask == [pc |-> "pending", theme_url |-> NoneStr, err |-> NoneStr, lines |-> 0,
            retcode |-> NoneInt, size |-> NoneInt, opened |-> <<>>]
DoneTask == [NewTask EXCEPT !.pc = "done"]

\* append_log on a job, with the record of the cursor it assigned.
StoreAppend(id, level, message) ==
    /\ jobs' = append_log(jobs, id, level, message, now)
    /\ appended' = [appended EXCEPT ![id] = Append(@, returned_cursor(jobs', id))]

\* A remove that keeps the record of a job whose directory is still there.
StoreRemoveUnlessDir(id) ==
    IF id \in dirs
    THEN UNCHANGED <<jobs, cancel_events, appended>>
    ELSE /\ jobs' = pop(jobs, id)
         /\ cancel_events' = pop(cancel_events, id)
         /\ appended' = pop(appended, id)

\* JobStore.remove, the lock section.
StoreRemove(id) ==
    /\ jobs' = pop(jobs, id)
    /\ cancel_events' = pop(cancel_events, id)
    /\ appended' = pop(appended, id)

\* shutil.rmtree(dir, ignore_errors=True) under suppress(Exception): the
\* directory is gone, or the deletion failed and the error was swallowed.
Rmtree(id) ==
    \/ /\ dirs' = dirs \ {id}
       /\ nfault' = nfault
    \/ /\ id \in dirs
       /\ nfault < MaxFaults
       /\ dirs' = dirs
       /\ nfault' = nfault + 1

ReqFree == req.pc = "idle"

\* A handler has computed its response.  Returning it touches nothing but the
\* handler's own frame, so it commutes with every step of the other threads
\* and is taken at once: in a state with req.pc = "done" the stores are as
\* the handler's last store call left them.
Responding == req.pc = "done"

Return ==
    /\ Responding
    /\ req' = NoReq
    /\ UNCHANGED <<jobs, cancel_events, tokens, uuid_job, uuid_tok, now, lresp, appended,
                   tres, rsv, tasks, queue, sweep, dirs, cancelled_as, ncancel, nfault, nsession>>

\* ------------------------------------------------------------ the executor
\* An executor that starts every submitted task at once, on a thread of its own.
StartUnbounded(j) ==
    /\ ~Responding
    /\ queue # <<>>
    /\ j = Head(queue)
    /\ queue' = Tail(queue)
    /\ tasks' = [tasks EXCEPT ![j].pc = "r_check0"]
    /\ UNCHANGED <<jobs, cancel_events, tokens, uuid_job, uuid_tok, now, lresp, appended,
                   tres, rsv, req, sweep, dirs, cancelled_as, ncancel, nfault, nsession>>

\* ThreadPoolExecutor: an idle worker takes the oldest submitted task.
Start(j) ==
    /\ ~Responding
    /\ queue # <<>>
    /\ j = Head(queue)
    /\ Cardinality({k \in DOMAIN tasks : tasks[k].pc \notin {"pending", "done"}}) < MaxWorkers
    /\ queue' = Tail(queue)
    /\ tasks' = [tasks EXCEPT ![j].pc = "r_check0"]
    /\ UNCHANGED <<jobs, cancel_events, tokens, uuid_job, uuid_tok, now, lresp, appended,
                   tres, rsv, req, sweep, dirs, cancelled_as, ncancel, nfault, nsession>>

\* ---------------------------------------------------------- RipRunner.run
\* One step of a runner is one call into the JobStore (one lock section),
\* together with the thread-local work that follows it up to the next call:
\* opening the driver, the driver's answer, starting the subprocess, reading
\* its next line or its exit code, writing the archive, creating or deleting
\* the job's own directory.

\* What the subprocess gives next: another line (while it has lines left), or
\* the end of its output and its exit code.
ReadNext(t) ==
    (IF t.lines < MaxLines THEN {[t EXCEPT !.pc = "m_line_check", !.lines = @ + 1]} ELSE {})
    \cup {[t EXCEPT !.pc = "m_ret_check", !.retcode = retcode] :
              retcode \in IF nfault < MaxFaults THEN ExitCodes ELSE {0}}

\* A fault is counted when the exit code is not 0.
Faulted(t) == IF t.pc = "m_ret_check" /\ t.retcode # 0 THEN nfault + 1 ELSE nfault

Raise(t, err) == [t EXCEPT !.pc = "e_log", !.err = err]

\* _ensure_not_cancelled at the stage boundaries (lines 39, 41, 50, 56, 60, 62
\* and the one inside _with_driver): pc -> the pc that follows.
CheckNext ==
    [r_check0 |-> "r_mark_running", r_check1 |-> "r_log_accept",
     p_check0 |-> "p_open", p_check |-> "p_func",
     f_check0 |-> "f_open", f_check |-> "f_func",
     m_check0 |-> "m_log_run", a_check0 |-> "a_log"]

\* A check that never looks at the cancellation signal.
RunCheckBlind(j) ==
    /\ ~Responding
    /\ j \in DOMAIN tasks
    /\ tasks[j].pc \in DOMAIN CheckNext
    /\ tasks' = [tasks EXCEPT ![j].pc = CheckNext[tasks[j].pc]]
    /\ UNCHANGED <<jobs, cancel_events, tokens, uuid_job, uuid_tok, now, lresp, appended,
                   tres, rsv, queue, req, sweep, dirs, cancelled_as, ncancel, nfault, nsession>>

RunCheck(j) ==
    /\ ~Responding
    /\ j \in DOMAIN tasks
    /\ tasks[j].pc \in DOMAIN CheckNext
    /\ tasks' = [tasks EXCEPT ![j].pc =
                    IF is_cancelled(cancel_events, j) THEN "x_log"
                    ELSE CheckNext[tasks[j].pc]]
    /\ UNCHANGED <<jobs, cancel_events, tokens, uuid_job, uuid_tok, now, lresp, appended,
                   tres, rsv, queue, req, sweep, dirs, cancelled_as, ncancel, nfault, nsession>>

\* self._store.mark_running(job_id): _get raises KeyError for a removed job.
RunMarkRunning(j) ==
    /\ ~Responding
    /\ j \in DOMAIN tasks
    /\ tasks[j].pc = "r_mark_running"
    /\ IF Has(jobs, j)
       THEN /\ jobs' = mark_running(jobs, j, now)
            /\ tasks' = [tasks EXCEPT ![j].pc = "r_check1"]
       ELSE /\ jobs' = jobs
            /\ tasks' = [tasks EXCEPT ![j] = Raise(@, KeyErrorText)]
    /\ UNCHANGED <<cancel_events, tokens, uuid_job, uuid_tok, now, lresp, appended,
                   tres, rsv, queue, req, sweep, dirs, cancelled_as, ncancel, nfault, nsession>>

\* append_log(job_id, "info", "Job accepted, starting extraction"), then
\* mirror_dir.mkdir(parents=True, exist_ok=True) and the branch on the URL.
RunAccept(j) ==
    /\ ~Responding
    /\ j \in DOMAIN tasks
    /\ tasks[j].pc = "r_log_accept"
    /\ IF Has(jobs, j)
       THEN /\ StoreAppend(j, "info", "Job accepted, starting extraction")
            /\ dirs' = dirs \cup {j}
            /\ tasks' = [tasks EXCEPT ![j].pc =
                            IF has_preview_marker(tasks[j].theme_url) THEN "r_log_skip"
                            ELSE "p_check0"]
       ELSE /\ UNCHANGED <<jobs, appended, dirs>>
            /\ tasks' = [tasks EXCEPT ![j] = Raise(@, KeyErrorText)]
    /\ UNCHANGED <<cancel_events, tokens, uuid_job, uuid_tok, now, lresp,
                   tres, rsv, queue, req, sweep, cancelled_as, ncancel, nfault, nsession>>

\* The append_log calls of the try body that nothing but the next store call
\* follows: pc -> level, message and next pc.
AppendAt ==
    [r_log_skip |-> <<"info", "Input URL already points to preview; skipping lookup", "f_check0">>,
     m_warn |-> <<"warn", "wget completed with HTTP errors (some assets may be missing)", "a_check0">>,
     a_final |-> <<"info", "Job completed successfully", "done">>]

RunAppend(j) ==
    /\ ~Responding
    /\ j \in DOMAIN tasks
    /\ tasks[j].pc \in DOMAIN AppendAt
    /\ LET at == AppendAt[tasks[j].pc]
       IN  IF Has(jobs, j)
           THEN /\ StoreAppend(j, at[1], at[2])
                /\ tasks' = [tasks EXCEPT ![j] = IF at[3] = "done" THEN DoneTask
                                                  ELSE [@ EXCEPT !.pc = at[3]]]
           ELSE /\ UNCHANGED <<jobs, appended>>
                /\ tasks' = [tasks EXCEPT ![j] = Raise(@, KeyErrorText)]
    /\ UNCHANGED <<cancel_events, tokens, uuid_job, uuid_tok, now, lresp,
                   tres, rsv, queue, req, sweep, dirs, cancelled_as, ncancel, nfault, nsession>>

\* _with_driver: driver = self._build_driver(job_id), which may raise, then
\* append_log(job_id, "info", description).  The configured Chrome and
\* chromedriver paths exist (or are unset), so _build_driver itself logs no
\* "falling back to default lookup" warning.
OpenAt ==
    [p_open |-> <<"Resolve preview URL", "p_check">>,
     f_open |-> <<"Resolve full frame URL", "f_check">>]

\* _build_driver has returned a driver: the task's record of the stages it
\* has opened a driver for, and its next pc.
Opened(t, pc) ==
    [t EXCEPT !.pc = pc, !.opened = Append(t.opened, OpenAt[t.pc][1])]

RunOpenDriver(j) ==
    /\ ~Responding
    /\ j \in DOMAIN tasks
    /\ tasks[j].pc \in DOMAIN OpenAt
    /\ \/ /\ nfault < MaxFaults
          /\ nfault' = nfault + 1
          /\ tasks' = [tasks EXCEPT ![j] = Raise(@, "Chrome failed to start")]
          /\ UNCHANGED <<jobs, appended>>
       \/ IF Has(jobs, j)
          THEN /\ nfault' = nfault
               /\ StoreAppend(j, "info", OpenAt[tasks[j].pc][1])
               /\ tasks' = [tasks EXCEPT ![j] = Opened(@, OpenAt[tasks[j].pc][2])]
          ELSE /\ UNCHANGED <<jobs, appended, nfault>>
               /\ tasks' = [tasks EXCEPT ![j] = Raise(Opened(@, @.pc), KeyErrorText)]
    /\ UNCHANGED <<cancel_events, tokens, uuid_job, uuid_tok, now, lresp,
                   tres, rsv, queue, req, sweep, dirs, cancelled_as, ncancel, nsession>>

\* _with_driver: return func(driver), a WebDriverException re-raised as
\* RuntimeError(f"{description} failed: ..."), driver.quit() in the finally;
\* then append_log(job_id, "info", f"Resolved ... URL {url}").
FuncAt ==
    [p_func |-> <<"Resolve preview URL failed", "Resolved preview URL", "f_check0">>,
     f_func |-> <<"Resolve full frame URL failed", "Resolved frame URL", "m_check0">>]

RunDriverFunc(j) ==
    /\ ~Responding
    /\ j \in DOMAIN tasks
    /\ tasks[j].pc \in DOMAIN FuncAt
    /\ \/ /\ nfault < MaxFaults
          /\ nfault' = nfault + 1
          /\ tasks' = [tasks EXCEPT ![j] = Raise(@, FuncAt[tasks[j].pc][1])]
          /\ UNCHANGED <<jobs, appended>>
       \/ IF Has(jobs, j)
          THEN /\ nfault' = nfault
               /\ StoreAppend(j, "info", FuncAt[tasks[j].pc][2])
               /\ tasks' = [tasks EXCEPT ![j].pc = FuncAt[tasks[j].pc][3]]
          ELSE /\ UNCHANGED <<jobs, appended, nfault>>
               /\ tasks' = [tasks EXCEPT ![j] = Raise(@, KeyErrorText)]
    /\ UNCHANGED <<cancel_events, tokens, uuid_job, uuid_tok, now, lresp,
                   tres, rsv, queue, req, sweep, dirs, cancelled_as, ncancel, nsession>>

\* _mirror_site: append_log(job_id, "info", "Running wget ..."), then
\* subprocess.Popen, its FileNotFoundError re-raised as RuntimeError, and the
\* first read of its output.
RunMirrorStart(j) ==
    /\ ~Responding
    /\ j \in DOMAIN tasks
    /\ tasks[j].pc = "m_log_run"
    /\ IF Has(jobs, j)
       THEN /\ StoreAppend(j, "info", "Running wget")
            /\ \/ /\ nfault < MaxFaults
                  /\ nfault' = nfault + 1
                  /\ tasks' = [tasks EXCEPT ![j] =
                        Raise(@, "wget is required but not installed or not in PATH")]
               \/ \E out \in ReadNext(tasks[j]) :
                     /\ tasks' = [tasks EXCEPT ![j] = out]
                     /\ nfault' = Faulted(out)
       ELSE /\ UNCHANGED <<jobs, appended, nfault>>
            /\ tasks' = [tasks EXCEPT ![j] = Raise(@, KeyErrorText)]
    /\ UNCHANGED <<cancel_events, tokens, uuid_job, uuid_tok, now, lresp,
                   tres, rsv, queue, req, sweep, dirs, cancelled_as, ncancel, nsession>>

\* _mirror_site, for a line read: if self._store.is_cancelled(job_id) the
\* subprocess is terminated and JobCancelled raised; else the line gives one
\* log entry (appended next) or none (and the next read follows).
RunLineCheck(j) ==
    /\ ~Responding
    /\ j \in DOMAIN tasks
    /\ tasks[j].pc = "m_line_check"
    /\ IF is_cancelled(cancel_events, j)
       THEN /\ tasks' = [tasks EXCEPT ![j].pc = "x_log"]
            /\ nfault' = nfault
       ELSE \/ /\ tasks' = [tasks EXCEPT ![j].pc = "m_line_log"]
               /\ nfault' = nfault
            \/ \E out \in ReadNext(tasks[j]) :
                     /\ tasks' = [tasks EXCEPT ![j] = out]
                     /\ nfault' = Faulted(out)
    /\ UNCHANGED <<jobs, cancel_events, tokens, uuid_job, uuid_tok, now, lresp, appended,
                   tres, rsv, queue, req, sweep, dirs, cancelled_as, ncancel, nsession>>

\* _mirror_site: append_log of the entry the line gave, then the next read.
RunLineLog(j) ==
    /\ ~Responding
    /\ j \in DOMAIN tasks
    /\ tasks[j].pc = "m_line_log"
    /\ IF Has(jobs, j)
       THEN /\ StoreAppend(j, "info", "Fetching")
            /\ \E out \in ReadNext(tasks[j]) :
                     /\ tasks' = [tasks EXCEPT ![j] = out]
                     /\ nfault' = Faulted(out)
       ELSE /\ UNCHANGED <<jobs, appended, nfault>>
            /\ tasks' = [tasks EXCEPT ![j] = Raise(@, KeyErrorText)]
    /\ UNCHANGED <<cancel_events, tokens, uuid_job, uuid_tok, now, lresp,
                   tres, rsv, queue, req, sweep, dirs, cancelled_as, ncancel, nsession>>

\* An exit-code test that takes every non-zero code, 8 included, as a failure.
RunRetcodeStrict(j) ==
    /\ ~Responding
    /\ j \in DOMAIN tasks
    /\ tasks[j].pc = "m_ret_check"
    /\ tasks' = [tasks EXCEPT ![j] =
                    IF is_cancelled(cancel_events, j) THEN [@ EXCEPT !.pc = "x_log"]
                    ELSE IF @.retcode # 0 THEN Raise(@, "wget exited with code 1")
                    ELSE [@ EXCEPT !.pc = "a_check0"]]
    /\ UNCHANGED <<jobs, cancel_events, tokens, uuid_job, uuid_tok, now, lresp, appended,
                   tres, rsv, queue, req, sweep, dirs, cancelled_as, ncancel, nfault, nsession>>

\* _mirror_site: the is_cancelled test after process.wait(), then the exit code.
RunRetcode(j) ==
    /\ ~Responding
    /\ j \in DOMAIN tasks
    /\ tasks[j].pc = "m_ret_check"
    /\ tasks' = [tasks EXCEPT ![j] =
                    IF is_cancelled(cancel_events, j) THEN [@ EXCEPT !.pc = "x_log"]
                    ELSE IF @.retcode = 8 THEN [@ EXCEPT !.pc = "m_warn"]
                    ELSE IF @.retcode # 0 THEN Raise(@, "wget exited with code 1")
                    ELSE [@ EXCEPT !.pc = "a_check0"]]
    /\ UNCHANGED <<jobs, cancel_events, tokens, uuid_job, uuid_tok, now, lresp, appended,
                   tres, rsv, queue, req, sweep, dirs, cancelled_as, ncancel, nfault, nsession>>

\* zip_path = self._create_archive(...), of some size, then
\* append_log(job_id, "info", f"Created archive {zip_path.name}").
RunArchive(j) ==
    /\ ~Responding
    /\ j \in DOMAIN tasks
    /\ tasks[j].pc = "a_log"
    /\ \E size \in IF nfault < MaxFaults THEN ArchiveSizes ELSE {100 * 1024} :
          IF Has(jobs, j)
          THEN /\ nfault' = IF too_small(size) THEN nfault + 1 ELSE nfault
               /\ StoreAppend(j, "info", "Created archive")
               /\ tasks' = [tasks EXCEPT ![j].pc = "a_succeed", ![j].size = size]
          ELSE /\ UNCHANGED <<jobs, appended, nfault>>
               /\ tasks' = [tasks EXCEPT ![j] = Raise(@, KeyErrorText)]
    /\ UNCHANGED <<cancel_events, tokens, uuid_job, uuid_tok, now, lresp,
                   tres, rsv, queue, req, sweep, dirs, cancelled_as, ncancel, nsession>>

\* self._store.mark_succeeded(job_id, zip_path): the size floor, then
\* mark_failed or the Succeeded lock section, the token issued inside it.
RunMarkSucceeded(j) ==
    /\ ~Responding
    /\ j \in DOMAIN tasks
    /\ tasks[j].pc = "a_succeed"
    /\ IF Has(jobs, j)
       THEN LET r == issue_token(tokens, j, now + TTL, now, uuid_tok)
            IN  /\ jobs' = IF too_small(tasks[j].size)
                           THEN mark_failed(jobs, j,
                                    "Final archive was too small; preview may not be rippable",
                                    now, r.token)
                           ELSE mark_succeeded(jobs, j, "zip", tasks[j].size, now, r.token)
                /\ tokens' = r.table
                /\ uuid_tok' = IF r.minted THEN uuid_tok + 1 ELSE uuid_tok
                /\ tasks' = [tasks EXCEPT ![j].pc = "a_final"]
       ELSE /\ UNCHANGED <<jobs, tokens, uuid_tok>>
            /\ tasks' = [tasks EXCEPT ![j] = Raise(@, KeyErrorText)]
    /\ UNCHANGED <<cancel_events, uuid_job, now, lresp, appended,
                   tres, rsv, queue, req, sweep, dirs, cancelled_as, ncancel, nfault, nsession>>

\* except JobCancelled: append_log(job_id, "info", "Job cancelled by user");
\* a KeyError raised here leaves run().
RunCancelLog(j) ==
    /\ ~Responding
    /\ j \in DOMAIN tasks
    /\ tasks[j].pc = "x_log"
    /\ IF Has(jobs, j)
       THEN /\ StoreAppend(j, "info", "Job cancelled by user")
            /\ tasks' = [tasks EXCEPT ![j].pc = "x_mark"]
       ELSE /\ UNCHANGED <<jobs, appended>>
            /\ tasks' = [tasks EXCEPT ![j] = DoneTask]
    /\ UNCHANGED <<cancel_events, tokens, uuid_job, uuid_tok, now, lresp,
                   tres, rsv, queue, req, sweep, dirs, cancelled_as, ncancel, nfault, nsession>>

\* except JobCancelled: mark_cancelled, the lock section.
RunMarkCancelled(j) ==
    /\ ~Responding
    /\ j \in DOMAIN tasks
    /\ tasks[j].pc = "x_mark"
    /\ IF Has(jobs, j)
       THEN /\ jobs' = mark_cancelled(jobs, j, now)
            /\ tasks' = [tasks EXCEPT ![j].pc = "x_tok"]
       ELSE /\ jobs' = jobs
            /\ tasks' = [tasks EXCEPT ![j] = DoneTask]
    /\ UNCHANGED <<cancel_events, tokens, uuid_job, uuid_tok, now, lresp, appended,
                   tres, rsv, queue, req, sweep, dirs, cancelled_as, ncancel, nfault, nsession>>

\* mark_cancelled: self._tokens.delete_for_job(job_id), after the lock
\* section; then shutil.rmtree(storage_dir, ignore_errors=True).
RunCancelTokens(j) ==
    /\ ~Responding
    /\ j \in DOMAIN tasks
    /\ tasks[j].pc = "x_tok"
    /\ tokens' = delete_for_job(tokens, j)
    /\ Rmtree(j)
    /\ tasks' = [tasks EXCEPT ![j].pc = "x_remove"]
    /\ UNCHANGED <<jobs, cancel_events, uuid_job, uuid_tok, now, lresp, appended,
                   tres, rsv, queue, req, sweep, cancelled_as, ncancel, nsession>>

\* self._store.remove(job_id), the lock section.
RunRemove(j) ==
    /\ ~Responding
    /\ j \in DOMAIN tasks
    /\ tasks[j].pc = "x_remove"
    /\ StoreRemove(j)
    /\ tasks' = [tasks EXCEPT ![j].pc = "x_remove_tok"]
    /\ UNCHANGED <<tokens, uuid_job, uuid_tok, now, lresp,
                   tres, rsv, queue, req, sweep, dirs, cancelled_as, ncancel, nfault, nsession>>

\* remove: self._tokens.delete_for_job(job_id), after the lock section.
RunRemoveTokens(j) ==
    /\ ~Responding
    /\ j \in DOMAIN tasks
    /\ tasks[j].pc = "x_remove_tok"
    /\ tokens' = delete_for_job(tokens, j)
    /\ tasks' = [tasks EXCEPT ![j] = DoneTask]
    /\ UNCHANGED <<jobs, cancel_events, uuid_job, uuid_tok, now, lresp, appended,
                   tres, rsv, queue, req, sweep, dirs, cancelled_as, ncancel, nfault, nsession>>

\* except Exception: append_log(job_id, "error", str(exc)); a KeyError raised
\* here leaves run().
RunFailLog(j) ==
    /\ ~Responding
    /\ j \in DOMAIN tasks
    /\ tasks[j].pc = "e_log"
    /\ IF Has(jobs, j)
       THEN /\ StoreAppend(j, "error", tasks[j].err)
            /\ tasks' = [tasks EXCEPT ![j].pc = "e_mark"]
       ELSE /\ UNCHANGED <<jobs, appended>>
            /\ tasks' = [tasks EXCEPT ![j] = DoneTask]
    /\ UNCHANGED <<cancel_events, tokens, uuid_job, uuid_tok, now, lresp,
                   tres, rsv, queue, req, sweep, dirs, cancelled_as, ncancel, nfault, nsession>>

\* except Exception: mark_failed(job_id, str(exc)), then
\* shutil.rmtree(storage_dir, ignore_errors=True) and the re-raise.
RunMarkFailed(j) ==
    /\ ~Responding
    /\ j \in DOMAIN tasks
    /\ tasks[j].pc = "e_mark"
    /\ IF Has(jobs, j)
       THEN LET r == issue_token(tokens, j, now + TTL, now, uuid_tok)
            IN  /\ jobs' = mark_failed(jobs, j, tasks[j].err, now, r.token)
                /\ tokens' = r.table
                /\ uuid_tok' = IF r.minted THEN uuid_tok + 1 ELSE uuid_tok
                /\ Rmtree(j)
       ELSE UNCHANGED <<jobs, tokens, uuid_tok, dirs, nfault>>
    /\ tasks' = [tasks EXCEPT ![j] = DoneTask]
    /\ UNCHANGED <<cancel_events, uuid_job, now, lresp, appended,
                   tres, rsv, queue, req, sweep, cancelled_as, ncancel, nsession>>

Runner(j) ==
    \/ Start(j)
    \/ RunCheck(j)
    \/ RunMarkRunning(j)
    \/ RunAccept(j)
    \/ RunAppend(j)
    \/ RunOpenDriver(j)
    \/ RunDriverFunc(j)
    \/ RunMirrorStart(j)
    \/ RunLineCheck(j)
    \/ RunLineLog(j)
    \/ RunRetcode(j)
    \/ RunArchive(j)
    \/ RunMarkSucceeded(j)
    \/ RunCancelLog(j)
    \/ RunMarkCancelled(j)
    \/ RunCancelTokens(j)
    \/ RunRemove(j)
    \/ RunRemoveTokens(j)
    \/ RunFailLog(j)
    \/ RunMarkFailed(j)

\* ------------------------------------------------------ api/routes/rips.py
\* get_or_create_session_id: the cookie the request carries, one of those
\* minted so far, or, for a request without a valid cookie, a fresh
\* secrets.token_urlsafe(32).
Cookies == 1..(IF nsession < MaxSessions THEN nsession + 1 ELSE nsession)

Respond(op, job_id, session_id, seen, outcome) ==
    [NoReq EXCEPT !.op = op, !.pc = "done", !.job_id = job_id, !.session_id = session_id,
                  !.seen = seen, !.outcome = outcome]

\* create_rip_job: if job_store.active_count() >= settings.queue_limit -> 429
CreateCount ==
    \E session_id \in Cookies :
        /\ ReqFree
        /\ uuid_job <= MaxJobs
        /\ IF active_count(jobs) >= QueueLimit
           THEN /\ req' = Respond("create", NoneInt, NoneInt, NoneStr, 429)
                /\ nsession' = nsession
           ELSE /\ req' = [NoReq EXCEPT !.op = "create", !.pc = "c_session",
                                        !.session_id = session_id]
                /\ nsession' = IF session_id > nsession THEN session_id ELSE nsession
        /\ UNCHANGED <<jobs, cancel_events, tokens, uuid_job, uuid_tok, now, lresp, appended,
                       tres, rsv, tasks, queue, sweep, dirs, cancelled_as, ncancel, nfault>>

\* create_rip_job: active_job_for_session(session_id) is not None -> 409
CreateSession ==
    /\ req.pc = "c_session"
    /\ req' = IF active_job_for_session(jobs, req.session_id) # NoneInt
              THEN Respond("create", NoneInt, NoneInt, NoneStr, 409)
              ELSE [req EXCEPT !.pc = "c_create"]
    /\ UNCHANGED <<jobs, cancel_events, tokens, uuid_job, uuid_tok, now, lresp, appended,
                   tres, rsv, tasks, queue, sweep, dirs, cancelled_as, ncancel, nfault, nsession>>

\* create_rip_job: job = job_store.create(str(payload.theme_url), session_id)
CreateJob ==
    /\ req.pc = "c_create"
    /\ \E theme_url \in Urls :
          /\ jobs' = create(jobs, uuid_job, theme_url, req.session_id, now)
          /\ req' = [req EXCEPT !.pc = "c_log", !.job_id = uuid_job, !.theme_url = theme_url]
    /\ cancel_events' = cancel_events @@ (uuid_job :> FALSE)
    /\ appended' = appended @@ (uuid_job :> <<>>)
    /\ uuid_job' = uuid_job + 1
    /\ UNCHANGED <<tokens, uuid_tok, now, lresp, tres, rsv, tasks, queue, sweep, dirs,
                   cancelled_as, ncancel, nfault, nsession>>

\* create_rip_job: job_store.append_log(job.job_id, "info", "Job queued"),
\* then executor.submit(task).
CreateLogSubmit ==
    /\ req.pc = "c_log"
    /\ IF Has(jobs, req.job_id)
       THEN /\ StoreAppend(req.job_id, "info", "Job queued")
            /\ queue' = Append(queue, req.job_id)
            /\ tasks' = tasks @@ (req.job_id :> [NewTask EXCEPT !.theme_url = req.theme_url])
            /\ req' = [req EXCEPT !.pc = "c_snapshot"]
       ELSE /\ UNCHANGED <<jobs, appended, queue, tasks>>
            /\ req' = Respond("create", req.job_id, req.session_id, NoneStr, 500)
    /\ UNCHANGED <<cancel_events, tokens, uuid_job, uuid_tok, now, lresp,
                   tres, rsv, sweep, dirs, cancelled_as, ncancel, nfault, nsession>>

\* create_rip_job: snapshot = job_store.snapshot(job.job_id); assert; 202
CreateSnapshot ==
    /\ req.pc = "c_snapshot"
    /\ req' = IF Has(jobs, req.job_id)
              THEN Respond("create", req.job_id, req.session_id, jobs[req.job_id].status, 202)
              ELSE Respond("create", req.job_id, req.session_id, NoneStr, 500)
    /\ UNCHANGED <<jobs, cancel_events, tokens, uuid_job, uuid_tok, now, lresp, appended,
                   tres, rsv, tasks, queue, sweep, dirs, cancelled_as, ncancel, nfault, nsession>>

\* cancel_job: snapshot and the ownership test: 404.
CancelNotFound ==
    \E job_id \in JobIds, session_id \in Cookies :
        /\ ReqFree
        /\ IF Has(jobs, job_id) THEN jobs[job_id].session_id # session_id ELSE TRUE
        /\ req' = Respond("cancel", NoneInt, NoneInt, NoneStr, 404)
        /\ UNCHANGED <<jobs, cancel_events, tokens, uuid_job, uuid_tok, now, lresp, appended,
                       tres, rsv, tasks, queue, sweep, dirs, cancelled_as, ncancel, nfault, nsession>>

\* cancel_job: snapshot of the session's own job, and the branch on the
\* status seen.
CancelSnapshot ==
    \E job_id \in JobIds, session_id \in Cookies :
        /\ ReqFree
        /\ ncancel < MaxCancels
        /\ Has(jobs, job_id)
        /\ jobs[job_id].session_id = session_id
        /\ ncancel' = ncancel + 1
        /\ req' = [NoReq EXCEPT !.op = "cancel", !.job_id = job_id,
                                !.session_id = session_id,
                                !.seen = jobs[job_id].status,
                                !.pc = IF jobs[job_id].status \in ActiveStatuses
                                       THEN "k_request" ELSE "k_remove"]
        /\ UNCHANGED <<jobs, cancel_events, tokens, uuid_job, uuid_tok, now, lresp, appended,
                       tres, rsv, tasks, queue, sweep, dirs, cancelled_as, nfault, nsession>>

\* cancel_job: job_store.request_cancel(job_id)
CancelRequest ==
    /\ req.pc = "k_request"
    /\ IF Has(jobs, req.job_id) /\ Has(cancel_events, req.job_id)
       THEN /\ jobs' = request_cancel(jobs, req.job_id, now)
            /\ cancel_events' = [cancel_events EXCEPT ![req.job_id] = TRUE]
            /\ cancelled_as' = IF Has(cancelled_as, req.job_id) THEN cancelled_as
                               ELSE cancelled_as @@ (req.job_id :> jobs[req.job_id].status)
       ELSE UNCHANGED <<jobs, cancel_events, cancelled_as>>
    /\ req' = [req EXCEPT !.pc = "k_log"]
    /\ UNCHANGED <<tokens, uuid_job, uuid_tok, now, lresp, appended,
                   tres, rsv, tasks, queue, sweep, dirs, ncancel, nfault, nsession>>

\* cancel_job: append_log(job_id, "info", "Cancellation requested by user"); 204.
\* The KeyError of a job removed in between is not caught: 500.
CancelLog ==
    /\ req.pc = "k_log"
    /\ IF Has(jobs, req.job_id)
       THEN /\ StoreAppend(req.job_id, "info", "Cancellation requested by user")
            /\ req' = Respond("cancel", req.job_id, req.session_id, req.seen, 204)
       ELSE /\ UNCHANGED <<jobs, appended>>
            /\ req' = Respond("cancel", req.job_id, req.session_id, req.seen, 500)
    /\ UNCHANGED <<cancel_events, tokens, uuid_job, uuid_tok, now, lresp,
                   tres, rsv, tasks, queue, sweep, dirs, cancelled_as, ncancel, nfault, nsession>>

\* cancel_job on a job seen neither Queued nor Running: job_store.remove(job_id),
\* the lock section.
CancelRemove ==
    /\ req.pc = "k_remove"
    /\ StoreRemove(req.job_id)
    /\ req' = [req EXCEPT !.pc = "k_remove_tok"]
    /\ UNCHANGED <<tokens, uuid_job, uuid_tok, now, lresp,
                   tres, rsv, tasks, queue, sweep, dirs, cancelled_as, ncancel, nfault, nsession>>

\* remove: self._tokens.delete_for_job(job_id); 204
CancelRemoveTokens ==
    /\ req.pc = "k_remove_tok"
    /\ tokens' = delete_for_job(tokens, req.job_id)
    /\ req' = Respond("cancel", req.job_id, req.session_id, req.seen, 204)
    /\ UNCHANGED <<jobs, cancel_events, uuid_job, uuid_tok, now, lresp, appended,
                   tres, rsv, tasks, queue, sweep, dirs, cancelled_as, ncancel, nfault, nsession>>

Handler ==
    \/ Return
    \/ CreateCount
    \/ CreateSession
    \/ CreateJob
    \/ CreateLogSubmit
    \/ CreateSnapshot
    \/ CancelNotFound
    \/ CancelSnapshot
    \/ CancelRequest
    \/ CancelLog
    \/ CancelRemove
    \/ CancelRemoveTokens

\* ------------------------------------------------- CleanupThread._prune
\* cutoff = now - ttl; stale_jobs = self._store.list_stale_jobs(cutoff)
SweepList ==
    /\ ~Responding
    /\ sweep.pc = "idle"
    /\ list_stale_jobs(jobs, now - TTL) # <<>>
    /\ sweep' = [pc |-> "rmtree", stale |-> list_stale_jobs(jobs, now - TTL)]
    /\ UNCHANGED <<jobs, cancel_events, tokens, uuid_job, uuid_tok, now, lresp, appended,
                   tres, rsv, tasks, queue, req, dirs, cancelled_as, ncancel, nfault, nsession>>

\* shutil.rmtree(job_dir, ignore_errors=True), then self._store.remove(job.job_id),
\* the lock section.
SweepRemove ==
    /\ ~Responding
    /\ sweep.pc = "rmtree"
    /\ Rmtree(Head(sweep.stale))
    /\ StoreRemove(Head(sweep.stale))
    /\ sweep' = [sweep EXCEPT !.pc = "remove_tok"]
    /\ UNCHANGED <<tokens, uuid_job, uuid_tok, now, lresp,
                   tres, rsv, tasks, queue, req, cancelled_as, ncancel, nsession>>

\* remove: self._tokens.delete_for_job(job_id); then the next stale job.
SweepRemoveTokens ==
    /\ ~Responding
    /\ sweep.pc = "remove_tok"
    /\ tokens' = delete_for_job(tokens, Head(sweep.stale))
    /\ sweep' = IF Tail(sweep.stale) = <<>> THEN NoSweep
                ELSE [pc |-> "rmtree", stale |-> Tail(sweep.stale)]
    /\ UNCHANGED <<jobs, cancel_events, uuid_job, uuid_tok, now, lresp, appended,
                   tres, rsv, tasks, queue, req, dirs, cancelled_as, ncancel, nfault, nsession>>

Sweeper == SweepList \/ SweepRemove \/ SweepRemoveTokens

\* The clock is read to stamp updated_at and expires_at, and those are read
\* back only from a Succeeded or Failed job (list_stale_jobs) and from a token
\* row (the expiry tests).  While the store holds no such job and the registry
\* no row, a later clock value shifts every time that will ever be compared
\* by the same amount, so time is let pass only when it can be observed.
TimeObserved ==
    \/ tokens # <<>>
    \/ \E id \in DOMAIN jobs : jobs[id].status \in {"succeeded", "failed"}

AppTick ==
    /\ TimeObserved
    /\ Tick

Next ==
    \/ \E j \in JobIds : Runner(j)
    \/ Handler
    \/ Sweeper
    \/ AppTick

Spec == Init /\ [][Next]_vars

\* ================================================ the readers of the store
\* SpecServe: the read handlers of rips.py (get_job, get_job_logs,
\* download_job_artifact, download_job_by_token) and cancel_job, each store or
\* registry call one step, beside the store calls of the other threads, each
\* call one step.  A runner's position in run() is abstracted to the status
\* and the cancellation signal of its job, and the cleanup thread to the
\* staleness test of the job it removes; the working directories are left
\* out.  Handlers are coroutines without an await: one request at a time.

serveFrame == <<lresp, tres, rsv, tasks, queue, sweep, dirs, cancelled_as,
                ncancel, nfault, nsession>>

\* The request in flight in a read handler.
ServeReq(op, pc, job_id, session_id, token) ==
    [op |-> op, pc |-> pc, job_id |-> job_id, session_id |-> session_id,
     token |-> token, expires_at |-> NoneInt, since |-> NoneInt,
     seen |-> NoneStr, outcome |-> NoneInt]

\* _raise_error(status_code, code, message)
raise_error(status_code, code, message) ==
    [status_code |-> status_code, code |-> code, message |-> message]

\* _raise_error(404, "JOB_NOT_FOUND", f"Job {job_id} not found")
JobNotFound(job_id) == raise_error(404, "JOB_NOT_FOUND", <<"Job", job_id, "not found">>)

\* A reply that tells a foreign job from an absent one.
not_found_reply_leaky(js, job_id) ==
    IF Has(js, job_id) THEN raise_error(403, "FORBIDDEN", <<"Job", job_id, "not found">>)
    ELSE JobNotFound(job_id)

\* The reply of the snapshot and ownership tests: job is None, or
\* job.session_id != session_id.
not_found_reply(js, job_id) == JobNotFound(job_id)

\* job is None or job.session_id != session_id
NotOwn(js, job_id, session_id) ==
    IF Has(js, job_id) THEN js[job_id].session_id # session_id ELSE TRUE

\* FileResponse(path=job.artifact_path, media_type="application/zip",
\*              filename=f"{job.job_id}.zip")
FileResponse(job) ==
    [status_code |-> 200, path |-> job.artifact_path,
     media_type |-> "application/zip", filename |-> <<job.job_id, ".zip">>]

\* A handler's reply: the request with its outcome, about to be returned.
Reply(r, outcome) == [r EXCEPT !.pc = "done", !.outcome = outcome]

\* An expiry test with the comparison turned round: serves only what has expired.
expired_inverted(expires_at, t) == expires_at # NoneInt /\ expires_at >= t

\* job.expires_at and job.expires_at < datetime.now(tz=timezone.utc)
expired(expires_at, t) == expires_at # NoneInt /\ expires_at < t

\* job.status != JobStatus.SUCCEEDED or job.artifact_path is None
not_ready(job) == job.status # "succeeded" \/ job.artifact_path = NoneStr

\* ------------------------------------------------- the other threads' calls
\* create_rip_job for an admitted request: create and the "Job queued" entry.
SvCreate ==
    \E session_id \in Sessions :
        /\ ReqFree
        /\ uuid_job <= MaxJobs
        /\ active_count(jobs) < QueueLimit
        /\ active_job_for_session(jobs, session_id) = NoneInt
        /\ jobs' = append_log(create(jobs, uuid_job, "https://themeforest.net/item/x/1",
                                     session_id, now),
                              uuid_job, "info", "Job queued", now)
        /\ cancel_events' = cancel_events @@ (uuid_job :> FALSE)
        /\ appended' = appended @@ (uuid_job :> <<0>>)
        /\ uuid_job' = uuid_job + 1
        /\ UNCHANGED <<tokens, uuid_tok, now, req>>
        /\ UNCHANGED serveFrame

\* run(): mark_running, by a runner whose cancellation check has passed; the
\* cancel request may have come in between.
SvMarkRunning ==
    \E id \in JobIds :
        /\ Has(jobs, id)
        /\ jobs[id].status \in {"queued", "cancelled"}
        /\ jobs' = mark_running(jobs, id, now)
        /\ UNCHANGED <<cancel_events, tokens, uuid_job, uuid_tok, now, appended, req>>
        /\ UNCHANGED serveFrame

\* run(): mark_succeeded(job_id, zip_path) with an archive of some size.
SvMarkSucceeded ==
    \E id \in JobIds, size \in ArchiveSizes :
        /\ Has(jobs, id)
        /\ jobs[id].status = "running"
        /\ LET r == issue_token(tokens, id, now + TTL, now, uuid_tok)
           IN  /\ jobs' = IF too_small(size)
                          THEN mark_failed(jobs, id,
                                   "Final archive was too small; preview may not be rippable",
                                   now, r.token)
                          ELSE mark_succeeded(jobs, id, "zip", size, now, r.token)
               /\ tokens' = r.table
               /\ uuid_tok' = IF r.minted THEN uuid_tok + 1 ELSE uuid_tok
        /\ UNCHANGED <<cancel_events, uuid_job, now, appended, req>>
        /\ UNCHANGED serveFrame

\* run(), except Exception: mark_failed(job_id, str(exc)).
SvMarkFailed ==
    \E id \in JobIds :
        /\ Has(jobs, id)
        /\ jobs[id].status = "running"
        /\ LET r == issue_token(tokens, id, now + TTL, now, uuid_tok)
           IN  /\ jobs' = mark_failed(jobs, id, "wget exited with code 1", now, r.token)
               /\ tokens' = r.table
               /\ uuid_tok' = IF r.minted THEN uuid_tok + 1 ELSE uuid_tok
        /\ UNCHANGED <<cancel_events, uuid_job, now, appended, req>>
        /\ UNCHANGED serveFrame

\* run(), except JobCancelled: mark_cancelled(job_id), by a runner that has
\* seen the cancellation signal set.
SvMarkCancelled ==
    \E id \in JobIds :
        /\ Has(jobs, id)
        /\ is_cancelled(cancel_events, id)
        /\ jobs[id].status \in {"running", "cancelled"}
        /\ jobs' = mark_cancelled(jobs, id, now)
        /\ tokens' = delete_for_job(tokens, id)
        /\ UNCHANGED <<cancel_events, uuid_job, uuid_tok, now, appended, req>>
        /\ UNCHANGED serveFrame

\* run(), except JobCancelled: remove(job_id), the lock section, after
\* mark_cancelled.
SvRunnerRemove ==
    \E id \in JobIds :
        /\ Has(jobs, id)
        /\ is_cancelled(cancel_events, id)
        /\ jobs[id].status = "cancelled"
        /\ StoreRemove(id)
        /\ UNCHANGED <<tokens, uuid_job, uuid_tok, now, req>>
        /\ UNCHANGED serveFrame

\* _prune: remove(job.job_id), the lock section, for a job that
\* list_stale_jobs(now - TTL) returns.
SvSweepRemove ==
    \E id \in JobIds :
        /\ \E i \in 1..Len(list_stale_jobs(jobs, now - TTL)) :
              list_stale_jobs(jobs, now - TTL)[i] = id
        /\ StoreRemove(id)
        /\ UNCHANGED <<tokens, uuid_job, uuid_tok, now, req>>
        /\ UNCHANGED serveFrame

\* remove: self._tokens.delete_for_job(job_id), after the lock section: the
\* record is gone and the job's rows are still in the table.
SvRemoveTokens ==
    \E id \in JobIds :
        /\ id < uuid_job
        /\ ~Has(jobs, id)
        /\ fetchone(tokens, "job_id", id) # NoRow
        /\ tokens' = delete_for_job(tokens, id)
        /\ UNCHANGED <<jobs, cancel_events, uuid_job, uuid_tok, now, appended, req>>
        /\ UNCHANGED serveFrame

\* The clock.  An expiry stamped at time t has passed at t + TTL + 1: the
\* clock runs TTL beyond MaxTime so that an expiry stamped before MaxTime is
\* seen to pass.
ServeTick ==
    /\ req.pc # "done"
    /\ TimeObserved
    /\ now < MaxTime + TTL
    /\ now' = now + 1
    /\ UNCHANGED <<jobs, cancel_events, tokens, uuid_job, uuid_tok, appended, req>>
    /\ UNCHANGED serveFrame

\* ------------------------------------------------------------------ get_job
\* get_job: snapshot, the two 404 tests, and _to_job_view: the status and the
\* download URL, which is built from the token of a Succeeded job with an
\* artifact whose expiry is after now.
GetJob ==
    \E job_id \in JobIds, session_id \in Sessions :
        /\ ReqFree
        /\ LET r == ServeReq("get_job", "done", job_id, session_id, NoneInt)
           IN  req' = IF NotOwn(jobs, job_id, session_id)
                      THEN Reply(r, not_found_reply(jobs, job_id))
                      ELSE LET job == jobs[job_id]
                           IN  Reply(r, [status_code |-> 200,
                                         status |-> job.status,
                                         download_url |->
                                            IF /\ job.status = "succeeded"
                                               /\ job.artifact_path # NoneStr
                                               /\ job.download_token # NoneInt
                                               /\ (job.expires_at = NoneInt
                                                      \/ job.expires_at > now)
                                            THEN job.download_token ELSE NoneInt])
        /\ UNCHANGED <<jobs, cancel_events, tokens, uuid_job, uuid_tok, now, appended>>
        /\ UNCHANGED serveFrame

\* ------------------------------------------------------------- get_job_logs
\* get_job_logs: snapshot and the two 404 tests.
LogsSnapshot ==
    \E job_id \in JobIds, session_id \in Sessions, since \in 0..1 :
        /\ ReqFree
        /\ LET r == [ServeReq("get_job_logs", "l_logs", job_id, session_id, NoneInt)
                        EXCEPT !.since = since]
           IN  req' = IF NotOwn(jobs, job_id, session_id)
                      THEN Reply(r, not_found_reply(jobs, job_id))
                      ELSE r
        /\ UNCHANGED <<jobs, cancel_events, tokens, uuid_job, uuid_tok, now, appended>>
        /\ UNCHANGED serveFrame

\* get_job_logs: job_store.get_logs_since(job_id, since) and the 200 reply;
\* the KeyError of a job removed in between is not caught: 500.
LogsSince ==
    /\ req.pc = "l_logs"
    /\ req' = IF Has(jobs, req.job_id)
              THEN Reply(req, [status_code |-> 200,
                               data |-> get_logs_since(jobs, req.job_id, req.since)])
              ELSE Reply(req, [status_code |-> 500])
    /\ UNCHANGED <<jobs, cancel_events, tokens, uuid_job, uuid_tok, now, appended>>
    /\ UNCHANGED serveFrame

\* ---------------------------------------------------- download_job_artifact
\* download_job_artifact: snapshot, the two 404 tests and the readiness test.
DownloadSnapshot ==
    \E job_id \in JobIds, session_id \in Sessions :
        /\ ReqFree
        /\ LET r == ServeReq("download_job_artifact", "d_expiry", job_id, session_id, NoneInt)
           IN  req' = IF NotOwn(jobs, job_id, session_id)
                      THEN Reply(r, not_found_reply(jobs, job_id))
                      ELSE IF not_ready(jobs[job_id])
                      THEN Reply(r, raise_error(409, "JOB_NOT_READY",
                                                "Job not completed successfully"))
                      ELSE [r EXCEPT !.seen = jobs[job_id]]
        /\ UNCHANGED <<jobs, cancel_events, tokens, uuid_job, uuid_tok, now, appended>>
        /\ UNCHANGED serveFrame

\* download_job_artifact: the expiry test against the clock, and the file.
DownloadExpiry ==
    /\ req.pc = "d_expiry"
    /\ req' = IF expired(req.seen.expires_at, now)
              THEN Reply(req, raise_error(404, "JOB_NOT_FOUND", "Download link has expired"))
              ELSE Reply(req, FileResponse(req.seen))
    /\ UNCHANGED <<jobs, cancel_events, tokens, uuid_job, uuid_tok, now, appended>>
    /\ UNCHANGED serveFrame

\* ---------------------------------------------------- download_job_by_token
\* download_job_by_token: token_store.resolve(token), the SELECT and the
\* expiry test.
TokenResolve ==
    \E token \in TokenIds :
        /\ ReqFree
        /\ LET r == ServeReq("download_job_by_token", "t_snapshot", NoneInt, NoneInt, token)
               row == fetchone(tokens, "token", token)
               found == resolve_select(tokens, token, now)
           IN  req' = IF found = "absent"
                      THEN Reply(r, raise_error(404, "DOWNLOAD_NOT_FOUND",
                                                "Download link is invalid or expired"))
                      ELSE IF found = "expired"
                      THEN [r EXCEPT !.pc = "t_resolve_delete"]
                      ELSE [r EXCEPT !.job_id = row.job_id,
                                     !.expires_at = fromisoformat(row.expires_at)]
        /\ UNCHANGED <<jobs, cancel_events, tokens, uuid_job, uuid_tok, now, appended>>
        /\ UNCHANGED serveFrame

\* download_job_by_token: job_store.snapshot(job_id) and the readiness test.
TokenSnapshot ==
    /\ req.pc = "t_snapshot"
    /\ req' = IF Has(jobs, req.job_id)
              THEN IF not_ready(jobs[req.job_id])
                   THEN [req EXCEPT !.pc = "t_invalid_delete"]
                   ELSE [req EXCEPT !.pc = "t_expiry", !.seen = jobs[req.job_id]]
              ELSE [req EXCEPT !.pc = "t_invalid_delete"]
    /\ UNCHANGED <<jobs, cancel_events, tokens, uuid_job, uuid_tok, now, appended>>
    /\ UNCHANGED serveFrame

\* download_job_by_token: the expiry test against the clock, and the file.
TokenExpiry ==
    /\ req.pc = "t_expiry"
    /\ req' = IF expired(req.expires_at, now)
              THEN [req EXCEPT !.pc = "t_expired_delete"]
              ELSE Reply(req, FileResponse(req.seen))
    /\ UNCHANGED <<jobs, cancel_events, tokens, uuid_job, uuid_tok, now, appended>>
    /\ UNCHANGED serveFrame

\* download_job_by_token: delete_token(token) (in resolve for an expired row,
\* in the handler for an unusable job or a passed expiry) and the 404.
TokenDelete ==
    /\ req.pc \in {"t_resolve_delete", "t_invalid_delete", "t_expired_delete"}
    /\ tokens' = delete_token(tokens, req.token)
    /\ req' = Reply(req, raise_error(404, "DOWNLOAD_NOT_FOUND",
                                     IF req.pc = "t_expired_delete"
                                     THEN "Download link has expired"
                                     ELSE "Download link is invalid or expired"))
    /\ UNCHANGED <<jobs, cancel_events, uuid_job, uuid_tok, now, appended>>
    /\ UNCHANGED serveFrame

\* ---------------------------------------------------------------- cancel_job
\* cancel_job: snapshot, the 404 test and the branch on the status seen.
ServeCancel ==
    \E job_id \in JobIds, session_id \in Sessions :
        /\ ReqFree
        /\ IF NotOwn(jobs, job_id, session_id) THEN TRUE ELSE ncancel < MaxCancels
        /\ LET r == ServeReq("cancel_job", "k_request", job_id, session_id, NoneInt)
           IN  req' = IF NotOwn(jobs, job_id, session_id)
                      THEN Reply(r, not_found_reply(jobs, job_id))
                      ELSE IF jobs[job_id].status \in ActiveStatuses
                      THEN [r EXCEPT !.seen = jobs[job_id].status]
                      ELSE [r EXCEPT !.seen = jobs[job_id].status, !.pc = "k_remove"]
        /\ ncancel' = IF NotOwn(jobs, job_id, session_id) THEN ncancel ELSE ncancel + 1
        /\ UNCHANGED <<jobs, cancel_events, tokens, uuid_job, uuid_tok, now, appended>>
        /\ UNCHANGED <<lresp, tres, rsv, tasks, queue, sweep, dirs, cancelled_as,
                       nfault, nsession>>

\* cancel_job: request_cancel(job_id), then append_log(job_id, "info",
\* "Cancellation requested by user") and 204; the KeyError of a job removed
\* in between is not caught: 500.
ServeCancelRequest ==
    /\ req.pc = "k_request"
    /\ IF Has(jobs, req.job_id)
       THEN /\ jobs' = request_cancel(jobs, req.job_id, now)
            /\ cancel_events' = [cancel_events EXCEPT ![req.job_id] = TRUE]
            /\ req' = [req EXCEPT !.pc = "k_log"]
       ELSE /\ UNCHANGED <<jobs, cancel_events>>
            /\ req' = [req EXCEPT !.pc = "k_log"]
    /\ UNCHANGED <<tokens, uuid_job, uuid_tok, now, appended>>
    /\ UNCHANGED serveFrame

ServeCancelLog ==
    /\ req.pc = "k_log"
    /\ IF Has(jobs, req.job_id)
       THEN /\ StoreAppend(req.job_id, "info", "Cancellation requested by user")
            /\ req' = Reply(req, [status_code |-> 204])
       ELSE /\ UNCHANGED <<jobs, appended>>
            /\ req' = Reply(req, [status_code |-> 500])
    /\ UNCHANGED <<cancel_events, tokens, uuid_job, uuid_tok, now>>
    /\ UNCHANGED serveFrame

\* cancel_job on a job seen neither Queued nor Running: remove(job_id), the
\* lock section, then delete_for_job and 204.  cancelled_as keeps, for the id
\* removed, the status the handler saw and the session that asked.
ServeCancelRemove ==
    /\ req.pc = "k_remove"
    /\ StoreRemove(req.job_id)
    /\ req' = [req EXCEPT !.pc = "k_remove_tok"]
    /\ cancelled_as' = IF Has(cancelled_as, req.job_id) THEN cancelled_as
                       ELSE cancelled_as @@ (req.job_id :> [seen |-> req.seen,
                                                            session_id |-> req.session_id])
    /\ UNCHANGED <<tokens, uuid_job, uuid_tok, now>>
    /\ UNCHANGED <<lresp, tres, rsv, tasks, queue, sweep, dirs, ncancel, nfault, nsession>>

ServeCancelRemoveTokens ==
    /\ req.pc = "k_remove_tok"
    /\ tokens' = delete_for_job(tokens, req.job_id)
    /\ req' = Reply(req, [status_code |-> 204])
    /\ UNCHANGED <<jobs, cancel_events, uuid_job, uuid_tok, now, appended>>
    /\ UNCHANGED serveFrame

\* The reply goes out.
ServeReturn ==
    /\ Responding
    /\ req' = NoReq
    /\ UNCHANGED <<jobs, cancel_events, tokens, uuid_job, uuid_tok, now, appended>>
    /\ UNCHANGED serveFrame

ServeNext ==
    \/ SvCreate
    \/ SvMarkRunning
    \/ SvMarkSucceeded
    \/ SvMarkFailed
    \/ SvMarkCancelled
    \/ SvRunnerRemove
    \/ SvSweepRemove
    \/ SvRemoveTokens
    \/ ServeTick
    \/ GetJob
    \/ LogsSnapshot
    \/ LogsSince
    \/ DownloadSnapshot
    \/ DownloadExpiry
    \/ TokenResolve
    \/ TokenSnapshot
    \/ TokenExpiry
    \/ TokenDelete
    \/ ServeCancel
    \/ ServeCancelRequest
    \/ ServeCancelLog
    \/ ServeCancelRemove
    \/ ServeCancelRemoveTokens
    \/ ServeReturn

SpecServe == Init /\ [][ServeNext]_vars

\* ======================================= the mirroring output classifier
\* SpecLines: RipRunner._simplify_wget_line applied to the lines of the
\* subprocess, one after the other, the remembered URL carried from one call
\* to the next as _mirror_site does.  A line is a sequence of tokens: a run of
\* whitespace (the line terminator included) or a word; adjacent words stand
\* next to each other in the text.  No word but "--" contains "--".
MaxLineLen == 3

Space == " "

UrlWords == {"https://h/css/a.css", "https://h/"}

Words == {"--", "Error", "Saving to:", "Not retrieving", "x"} \cup UrlWords

\* The lines fed to the classifier: lines as the tool prints them
\* ("--<time>--  <url>", "Saving to: <file>", a refusal to retrieve, an error,
\* each with its line terminator), and every token sequence up to MaxLineLen
\* in which a URL is the last word of the line and starts a word of its own.
Lines ==
    LET Transcript ==
            {<<"--", "x", "--", Space, u, Space>> : u \in UrlWords}
              \cup {<<Space, "--", "x", "--", Space, u, Space>> : u \in UrlWords}
              \cup {<<"Saving to:", Space, "x", Space>>,
                    <<"x", Space, "Not retrieving", Space>>,
                    <<"Error", Space, "x", Space>>}
    IN  Transcript \cup
        {l \in UNION {[1..n -> Words \cup {Space}] : n \in 0..MaxLineLen} :
            \A i \in 1..Len(l) :
                l[i] \in UrlWords =>
                    /\ \A k \in (i + 1)..Len(l) : l[k] = Space
                    /\ i > 1 => l[i - 1] \in {Space, "--"}}

\* No surrounding whitespace removed at all.
strip_nothing(line) == line

RECURSIVE strip(_)
\* str.strip()
strip(line) ==
    IF line = <<>> THEN <<>>
    ELSE IF Head(line) = Space THEN strip(Tail(line))
    ELSE IF line[Len(line)] = Space THEN strip(SubSeq(line, 1, Len(line) - 1))
    ELSE line

\* str.upper() and str.lower(), word by word.
upper(w) ==
    CASE w = "Error" -> "ERROR"
      [] w = "Saving to:" -> "SAVING TO:"
      [] w = "Not retrieving" -> "NOT RETRIEVING"
      [] w = "x" -> "X"
      [] w = "https://h/css/a.css" -> "HTTPS://H/CSS/A.CSS"
      [] w = "https://h/" -> "HTTPS://H/"
      [] OTHER -> w

lower(w) ==
    CASE w = "Error" -> "error"
      [] w = "Saving to:" -> "saving to:"
      [] w = "Not retrieving" -> "not retrieving"
      [] OTHER -> w

RECURSIVE split(_, _)
\* line.split("--", maxsplit)
split(line, maxsplit) ==
    IF maxsplit = 0 \/ ~\E i \in 1..Len(line) : line[i] = "--" THEN <<line>>
    ELSE LET i == CHOOSE i \in 1..Len(line) :
                    line[i] = "--" /\ \A k \in 1..(i - 1) : line[k] # "--"
         IN  <<SubSeq(line, 1, i - 1)>>
                \o split(SubSeq(line, i + 1, Len(line)), maxsplit - 1)

\* urlparse(url).netloc and Path(urlparse(url).path).name for a URL word.
urlparse(w) ==
    CASE w = "https://h/css/a.css" -> [netloc |-> "h", name |-> "a.css"]
      [] w = "https://h/" -> [netloc |-> "h", name |-> ""]

\* RipRunner._resource_label.  A text without "/" is its own path and name.
resource_label(url) ==
    IF url[Len(url)] \in UrlWords
    THEN LET parsed == urlparse(url[Len(url)])
         IN  IF parsed.name # "" THEN <<parsed.name>>
             ELSE IF parsed.netloc # "" THEN <<parsed.netloc>>
             ELSE url
    ELSE url

\* RipRunner._simplify_wget_line: the entries (level, message) and the
\* remembered URL returned.  last_url = <<>> stands for None; the empty
\* string, falsy as well, is never remembered.
simplify_wget_line(raw_line, last_url) ==
    LET line == strip(raw_line)
        nothing == [entries |-> <<>>, last_url |-> last_url]
    IN  IF line = <<>> THEN nothing
        ELSE IF upper(line[1]) = "ERROR"
        THEN [entries |-> << <<"error", line>> >>, last_url |-> last_url]
        ELSE IF line[1] = "--"
        THEN LET parts == split(line, 2)
             IN  IF Len(parts) >= 3 /\ strip(parts[3]) # <<>>
                 THEN [entries |-> << <<"info", <<"Fetching">> \o resource_label(strip(parts[3]))>> >>,
                       last_url |-> strip(parts[3])]
                 ELSE nothing
        ELSE IF lower(line[1]) = "saving to:"
        THEN IF last_url # <<>>
             THEN [entries |-> << <<"info", <<"Saved">> \o resource_label(last_url)>> >>,
                   last_url |-> last_url]
             ELSE nothing
        ELSE IF \E i \in 1..Len(line) : lower(line[i]) = "not retrieving"
        THEN [entries |-> << <<"warn", line>> >>, last_url |-> last_url]
        ELSE nothing

\* _mirror_site: last_url = None before the first line is read.
LinesInit ==
    /\ jobs = <<>>
    /\ cancel_events = <<>>
    /\ tokens = <<>>
    /\ uuid_job = 1
    /\ uuid_tok = 1
    /\ now = 0
    /\ lresp = [op |-> "none", raw_line |-> <<>>, last_url |-> <<>>,
                entries |-> <<>>, url |-> <<>>]
    /\ appended = <<>>
    /\ tres = NoTres
    /\ rsv = NoRsv
    /\ AppIdle

\* for line in process.stdout:
\*     entries, last_url = self._simplify_wget_line(line, last_url)
\* lresp keeps the call: its arguments, and the entries and the URL returned.
MirrorReadLine ==
    \E raw_line \in Lines :
        /\ lresp' = LET r == simplify_wget_line(raw_line, lresp.url)
                    IN  [op |-> "_simplify_wget_line", raw_line |-> raw_line,
                         last_url |-> lresp.url, entries |-> r.entries, url |-> r.last_url]
        /\ UNCHANGED <<jobs, cancel_events, tokens, uuid_job, uuid_tok, now, appended, tres, rsv>>
        /\ UNCHANGED appVars

SpecLines == LinesInit /\ [][MirrorReadLine]_vars

\* ================================================== the store's interface
\* SpecStore: the methods of JobStore called in any order on any id, present,
\* removed or never created, by callers that may also write to the values
\* they were handed.  A method is one step, its lock section; mark_cancelled
\* and remove call delete_for_job after the lock section, a step of its own,
\* and queue holds the calls that have left the lock section and have not yet
\* made that call.  The clock stands still.  ncancel counts the mark_* calls
\* that found their job and nfault the remove calls.
MaxStoreAppends == 3

MaxMarks == 2

MaxRemoves == 2

MaxPending == 2

\* The ids a caller can pass: the ids create has returned, which are uuid4
\* values that no later create returns again, and an id that create never
\* returns.
CallIds == {id \in JobIds : id < uuid_job} \cup {MaxJobs + 1}

\* What a method returned: alias is TRUE when the object returned is the one
\* the store keeps, FALSE when it is a copy.deepcopy of it.
NoRet == [alias |-> FALSE, job |-> <<>>, entries |-> <<>>]

\* A call that has returned or raised: found is whether _jobs held the id.
StoreCall(op, job_id, found, raised, ret) ==
    [op |-> op, job_id |-> job_id, found |-> found, raised |-> raised, ret |-> ret,
     mutated |-> FALSE]

StoreInit ==
    /\ jobs = <<>>
    /\ cancel_events = <<>>
    /\ tokens = <<>>
    /\ uuid_job = 1
    /\ uuid_tok = 1
    /\ now = 0
    /\ lresp = StoreCall("none", NoneInt, FALSE, FALSE, NoRet)
    /\ appended = <<>>
    /\ tres = NoTres
    /\ rsv = NoRsv
    /\ AppIdle

\* JobStore.create: return copy.deepcopy(job)
StCreate ==
    /\ uuid_job <= MaxJobs
    /\ jobs' = create(jobs, uuid_job, "https://themeforest.net/item/x/1", 1, now)
    /\ cancel_events' = cancel_events @@ (uuid_job :> FALSE)
    /\ appended' = appended @@ (uuid_job :> <<>>)
    /\ uuid_job' = uuid_job + 1
    /\ lresp' = StoreCall("create", uuid_job, FALSE, FALSE,
                          [NoRet EXCEPT !.job = <<jobs'[uuid_job]>>])
    /\ UNCHANGED <<tokens, uuid_tok, now, tres, rsv>>
    /\ UNCHANGED appVars

\* mark_running, mark_succeeded, mark_failed, mark_cancelled: _get raises
\* KeyError for an id that _jobs does not hold, before anything is written.
StMark ==
    \E id \in CallIds, size \in ArchiveSizes,
       op \in {"mark_running", "mark_succeeded", "mark_failed", "mark_cancelled"} :
        /\ lresp' = StoreCall(op, id, Has(jobs, id), ~Has(jobs, id), NoRet)
        /\ IF ~Has(jobs, id)
           THEN UNCHANGED <<jobs, tokens, uuid_tok, queue>>
           ELSE IF op = "mark_running"
           THEN /\ jobs' = mark_running(jobs, id, now)
                /\ UNCHANGED <<tokens, uuid_tok, queue>>
           ELSE IF op = "mark_cancelled"
           THEN /\ Len(queue) < MaxPending
                /\ jobs' = mark_cancelled(jobs, id, now)
                /\ queue' = Append(queue, [op |-> op, job_id |-> id, found |-> TRUE])
                /\ UNCHANGED <<tokens, uuid_tok>>
           ELSE LET r == issue_token(tokens, id, now + TTL, now, uuid_tok)
                IN  /\ uuid_tok <= MaxTokens
                    /\ jobs' = IF op = "mark_failed"
                               THEN mark_failed(jobs, id, "wget exited with code 1",
                                                now, r.token)
                               ELSE IF too_small(size)
                               THEN mark_failed(jobs, id,
                                        "Final archive was too small; preview may not be rippable",
                                        now, r.token)
                               ELSE mark_succeeded(jobs, id, "zip", size, now, r.token)
                    /\ tokens' = r.table
                    /\ uuid_tok' = IF r.minted THEN uuid_tok + 1 ELSE uuid_tok
                    /\ queue' = queue
        /\ IF Has(jobs, id)
           THEN ncancel < MaxMarks /\ ncancel' = ncancel + 1
           ELSE ncancel' = ncancel
        /\ UNCHANGED <<cancel_events, uuid_job, now, appended, tres, rsv>>
        /\ UNCHANGED <<tasks, req, sweep, dirs, cancelled_as, nfault, nsession>>

\* JobStore.append_log: return entry, the object appended to job.logs.
StAppend ==
    \E id \in CallIds :
        /\ IF Has(jobs, id)
           THEN /\ Len(appended[id]) < MaxStoreAppends
                /\ StoreAppend(id, "info", "line")
                /\ lresp' = StoreCall("append_log", id, TRUE, FALSE,
                                [NoRet EXCEPT !.alias = TRUE,
                                              !.entries = <<jobs'[id].logs[Len(jobs'[id].logs)]>>])
           ELSE /\ UNCHANGED <<jobs, appended>>
                /\ lresp' = StoreCall("append_log", id, FALSE, TRUE, NoRet)
        /\ UNCHANGED <<cancel_events, tokens, uuid_job, uuid_tok, now, tres, rsv>>
        /\ UNCHANGED appVars

\* JobStore.remove, the lock section: pop(job_id, None) twice.
StRemove ==
    \E id \in CallIds :
        /\ Len(queue) < MaxPending
        /\ StoreRemove(id)
        /\ queue' = Append(queue, [op |-> "remove", job_id |-> id, found |-> Has(jobs, id)])
        /\ nfault < MaxRemoves
        /\ nfault' = nfault + 1
        /\ UNCHANGED <<tokens, uuid_job, uuid_tok, now, lresp, tres, rsv>>
        /\ UNCHANGED <<tasks, req, sweep, dirs, cancelled_as, ncancel, nsession>>

\* self._tokens.delete_for_job(job_id) of remove or mark_cancelled; the call
\* returns.
StDeleteForJob ==
    \E i \in 1..Len(queue) :
        /\ tokens' = delete_for_job(tokens, queue[i].job_id)
        /\ queue' = SubSeq(queue, 1, i - 1) \o SubSeq(queue, i + 1, Len(queue))
        /\ lresp' = StoreCall(queue[i].op, queue[i].job_id, queue[i].found, FALSE, NoRet)
        /\ UNCHANGED <<jobs, cancel_events, uuid_job, uuid_tok, now, appended, tres, rsv>>
        /\ UNCHANGED <<tasks, req, sweep, dirs, cancelled_as, ncancel, nfault, nsession>>

\* snapshot, get_logs_since and tail: each returns copy.deepcopy of what it read.
StRead ==
    \E id \in CallIds, n \in 1..2, op \in {"snapshot", "get_logs_since", "tail"} :
        /\ lresp' =
             IF ~Has(jobs, id)
             THEN StoreCall(op, id, FALSE, op # "snapshot", NoRet)
             ELSE StoreCall(op, id, TRUE, FALSE,
                    IF op = "snapshot" THEN [NoRet EXCEPT !.job = <<jobs[id]>>]
                    ELSE IF op = "get_logs_since"
                    THEN [NoRet EXCEPT !.entries = get_logs_since(jobs, id, n - 1).entries]
                    ELSE [NoRet EXCEPT !.entries = LastN(jobs[id].logs, n)])
        /\ UNCHANGED <<jobs, cancel_events, tokens, uuid_job, uuid_tok, now, appended, tres, rsv>>
        /\ UNCHANGED appVars

\* The caller writes to the fields of the value the last call returned.  A
\* write to an object that the store keeps is a write to the store's state.
StMutate ==
    /\ ~lresp.mutated
    /\ lresp.ret # NoRet
    /\ lresp' = [lresp EXCEPT
                   !.ret.job = [i \in DOMAIN @ |-> [@[i] EXCEPT !.status = "mutated"]],
                   !.ret.entries = [i \in DOMAIN @ |-> [@[i] EXCEPT !.message = "mutated"]],
                   !.mutated = TRUE]
    /\ jobs' = IF lresp.ret.alias /\ Has(jobs, lresp.job_id)
               THEN [jobs EXCEPT ![lresp.job_id].logs =
                        [i \in DOMAIN @ |->
                            IF \E k \in DOMAIN lresp.ret.entries :
                                  lresp.ret.entries[k].cursor = @[i].cursor
                            THEN [@[i] EXCEPT !.message = "mutated"] ELSE @[i]]]
               ELSE jobs
    /\ UNCHANGED <<cancel_events, tokens, uuid_job, uuid_tok, now, appended, tres, rsv>>
    /\ UNCHANGED appVars

\* SpecStore: the calls that change the store and the registry.
SpecStore ==
    StoreInit /\ [][StCreate \/ StMark \/ StAppend \/ StRemove \/ StDeleteForJob]_vars

\* SpecAlias: the calls that hand a value to the caller, and the caller's
\* writes to it.
SpecAlias ==
    StoreInit /\ [][StCreate \/ StAppend \/ StRemove \/ StDeleteForJob
                      \/ StRead \/ StMutate]_vars

\* ========================================================== the two locks
\* SpecLocks: the store's lock (JobStore._lock) and the registry's lock
\* (TokenStore._lock), both threading.Lock, taken and released by the methods
\* the runner, the cleanup thread and a request handler call.  tasks holds,
\* for each thread, the method it is in, its place in the method's lock
\* operations, the locks it holds and the calls it has made.
MaxCalls == 2

Threads == {"runner", "sweeper", "handler"}

\* A plausible slip: resolve looks the job up in the store before it lets go
\* of the registry's lock.
LockOpsResolveNested ==
    [mark_succeeded |-> << <<"acquire", "store">>, <<"acquire", "registry">>,
                           <<"release", "registry">>, <<"release", "store">> >>,
     mark_failed |-> << <<"acquire", "store">>, <<"acquire", "registry">>,
                        <<"release", "registry">>, <<"release", "store">> >>,
     mark_cancelled |-> << <<"acquire", "store">>, <<"release", "store">>,
                           <<"acquire", "registry">>, <<"release", "registry">> >>,
     remove |-> << <<"acquire", "store">>, <<"release", "store">>,
                   <<"acquire", "registry">>, <<"release", "registry">> >>,
     append_log |-> << <<"acquire", "store">>, <<"release", "store">> >>,
     list_stale_jobs |-> << <<"acquire", "store">>, <<"release", "store">> >>,
     snapshot |-> << <<"acquire", "store">>, <<"release", "store">> >>,
     resolve |-> << <<"acquire", "registry">>, <<"acquire", "store">>,
                    <<"release", "store">>, <<"release", "registry">> >>]

\* The lock operations of a method, in program order.  mark_succeeded and
\* mark_failed call issue_token inside "with self._lock"; mark_cancelled and
\* remove call delete_for_job after it; resolve calls delete_token for an
\* expired token; append_log, list_stale_jobs and snapshot take the store's
\* lock alone, as does any method that leaves its lock section by KeyError.
LockOps ==
    [mark_succeeded |-> << <<"acquire", "store">>, <<"acquire", "registry">>,
                           <<"release", "registry">>, <<"release", "store">> >>,
     mark_failed |-> << <<"acquire", "store">>, <<"acquire", "registry">>,
                        <<"release", "registry">>, <<"release", "store">> >>,
     mark_cancelled |-> << <<"acquire", "store">>, <<"release", "store">>,
                           <<"acquire", "registry">>, <<"release", "registry">> >>,
     remove |-> << <<"acquire", "store">>, <<"release", "store">>,
                   <<"acquire", "registry">>, <<"release", "registry">> >>,
     append_log |-> << <<"acquire", "store">>, <<"release", "store">> >>,
     list_stale_jobs |-> << <<"acquire", "store">>, <<"release", "store">> >>,
     snapshot |-> << <<"acquire", "store">>, <<"release", "store">> >>,
     resolve |-> << <<"acquire", "registry">>, <<"release", "registry">> >>]

LockInit ==
    /\ jobs = <<>>
    /\ cancel_events = <<>>
    /\ tokens = <<>>
    /\ uuid_job = 1
    /\ uuid_tok = 1
    /\ now = 0
    /\ lresp = NoLresp
    /\ appended = <<>>
    /\ tres = NoTres
    /\ rsv = NoRsv
    /\ tasks = [t \in Threads |-> [op |-> "idle", i |-> 0, held |-> {}, calls |-> 0]]
    /\ queue = <<>>
    /\ req = NoReq
    /\ sweep = NoSweep
    /\ dirs = {}
    /\ cancelled_as = <<>>
    /\ ncancel = 0
    /\ nfault = 0
    /\ nsession = 0

\* The thread calls a method of the store or the registry.
LockCall(t) ==
    /\ tasks[t].op = "idle"
    /\ tasks[t].calls < MaxCalls
    /\ \E op \in IF t = "runner"
                 THEN {"append_log", "mark_succeeded", "mark_failed", "mark_cancelled", "remove"}
                 ELSE IF t = "sweeper" THEN {"list_stale_jobs", "remove"}
                 ELSE {"snapshot", "resolve", "remove"} :
          tasks' = [tasks EXCEPT ![t] = [@ EXCEPT !.op = op, !.i = 1, !.calls = @ + 1]]
    /\ UNCHANGED <<jobs, cancel_events, tokens, uuid_job, uuid_tok, now, lresp, appended, tres, rsv>>
    /\ UNCHANGED <<queue, req, sweep, dirs, cancelled_as, ncancel, nfault, nsession>>

\* "with self._lock:", entered: Lock.acquire() returns once no thread, the
\* caller included, holds the lock.
LockAcquire(t) ==
    /\ tasks[t].op # "idle"
    /\ LockOps[tasks[t].op][tasks[t].i][1] = "acquire"
    /\ \A u \in Threads : LockOps[tasks[t].op][tasks[t].i][2] \notin tasks[u].held
    /\ tasks' = [tasks EXCEPT ![t] =
                    [@ EXCEPT !.held = @ \cup {LockOps[tasks[t].op][tasks[t].i][2]},
                              !.i = @ + 1]]
    /\ UNCHANGED <<jobs, cancel_events, tokens, uuid_job, uuid_tok, now, lresp, appended, tres, rsv>>
    /\ UNCHANGED <<queue, req, sweep, dirs, cancelled_as, ncancel, nfault, nsession>>

\* "with self._lock:", left; after the method's last release the call returns.
LockRelease(t) ==
    /\ tasks[t].op # "idle"
    /\ LockOps[tasks[t].op][tasks[t].i][1] = "release"
    /\ tasks' = [tasks EXCEPT ![t] =
                    [@ EXCEPT !.held = @ \ {LockOps[tasks[t].op][tasks[t].i][2]},
                              !.i = IF tasks[t].i = Len(LockOps[tasks[t].op]) THEN 0 ELSE @ + 1,
                              !.op = IF tasks[t].i = Len(LockOps[tasks[t].op]) THEN "idle" ELSE @]]
    /\ UNCHANGED <<jobs, cancel_events, tokens, uuid_job, uuid_tok, now, lresp, appended, tres, rsv>>
    /\ UNCHANGED <<queue, req, sweep, dirs, cancelled_as, ncancel, nfault, nsession>>

\* Every thread that can take a step is eventually scheduled.
SpecLocks ==
    /\ LockInit
    /\ [][\E t \in Threads : LockCall(t) \/ LockAcquire(t) \/ LockRelease(t)]_vars
    /\ \A t \in Threads : WF_vars(LockCall(t) \/ LockAcquire(t) \/ LockRelease(t))

\* ================================================================ claims
\* C1: in every reachable state, for every session, at most one job owned by
\* that session has status Queued or Running, under any interleaving of create
\* requests, cancel requests and runner threads.
C1_OneActiveJobPerSession ==
    \A session_id \in Sessions :
        Cardinality({id \in DOMAIN jobs :
                        /\ jobs[id].session_id = session_id
                        /\ jobs[id].status \in ActiveStatuses}) <= 1

\* The status changes of the job lifecycle.
LifecycleSteps ==
    {<<"queued", "running">>, <<"running", "succeeded">>, <<"running", "failed">>,
     <<"queued", "cancelled">>, <<"running", "cancelled">>}

\* C2: a job's status only ever changes along Queued->Running,
\* Running->Succeeded, Running->Failed, Queued->Cancelled or
\* Running->Cancelled; a Succeeded, Failed or Cancelled job never changes
\* status again.
C2_StatusChangesAlongLifecycle ==
    [][\A id \in DOMAIN jobs :
          (id \in DOMAIN jobs' /\ jobs'[id].status # jobs[id].status)
              => <<jobs[id].status, jobs'[id].status>> \in LifecycleSteps]_vars

\* C3: no creation is admitted that pushes the number of jobs in
\* {Queued, Running} above queue_limit: after the step of create_rip_job
\* that adds the job to the store, active_count() is at most queue_limit.
C3_AdmissionWithinQueueLimit ==
    [][(req.pc = "c_create" /\ req'.pc = "c_log")
          => active_count(jobs') <= QueueLimit]_vars

\* C4: for any sequence of append_log calls on a job the cursors assigned are
\* 0, 1, 2, ... in that order: strictly increasing, none assigned twice, also
\* after the oldest entries were trimmed away.
C4_CursorsNeverReused ==
    \A id \in DOMAIN appended :
        \A i \in 1..Len(appended[id]) : appended[id][i] = i - 1

\* C4 witness: more appends than the log retains, the oldest entries trimmed.
C4_Witness ==
    \E id \in DOMAIN jobs :
        /\ Len(appended[id]) >= LogLimit + 2
        /\ Len(jobs[id].logs) = LogLimit
        /\ jobs[id].logs[1].cursor >= 2

\* C5: get_logs_since(id, c) returns has_more = TRUE exactly when the oldest
\* retained entry of the job has a cursor greater than c; so has_more is FALSE
\* for an empty log, for c at or past the oldest retained cursor and for c
\* past the newest cursor.
C5_HasMoreIffTrimmedGap ==
    lresp.op = "get_logs_since" =>
        LET logs == jobs[lresp.job_id].logs
        IN  /\ lresp.has_more = (logs # <<>> /\ logs[1].cursor > lresp.since)
            /\ (logs = <<>> => ~lresp.has_more)
            /\ (lresp.since >= jobs[lresp.job_id].next_cursor => ~lresp.has_more)

\* C5 witness: a read below the oldest retained cursor after a trim, and it
\* reports has_more.
C5_Witness ==
    /\ lresp.op = "get_logs_since"
    /\ lresp.has_more
    /\ lresp.since >= 1
    /\ jobs[lresp.job_id].logs[1].cursor > lresp.since

\* C6: get_logs_since(id, c) returns exactly the retained entries with cursor
\* >= c, in increasing cursor order, none with cursor < c, and next_cursor
\* equal to the number of appends made so far.
C6_EntriesExactlyFromCursor ==
    lresp.op = "get_logs_since" =>
        LET logs == jobs[lresp.job_id].logs
            got == lresp.entries
        IN  /\ \A i \in DOMAIN got : got[i].cursor >= lresp.since
            /\ {got[i] : i \in DOMAIN got}
                 = {logs[k] : k \in {k \in DOMAIN logs : logs[k].cursor >= lresp.since}}
            /\ \A i, k \in DOMAIN got : i < k => got[i].cursor < got[k].cursor
            /\ lresp.next_cursor = Len(appended[lresp.job_id])

\* C6 witness: after a trim, a read that returns some retained entries and
\* leaves out an older retained one.
C6_Witness ==
    /\ lresp.op = "get_logs_since"
    /\ lresp.entries # <<>>
    /\ Len(lresp.entries) < Len(jobs[lresp.job_id].logs)
    /\ Len(appended[lresp.job_id]) > LogLimit

\* C7: once a cancel request has cancelled a job that was Queued and has
\* answered, the job is absent from the store (snapshot returns absent, the
\* fetch-job request reports not-found), also while the job's runner task has
\* not been started.
C7_CancelledQueuedJobAbsent ==
    \A id \in DOMAIN cancelled_as :
        (/\ cancelled_as[id] = "queued"
         /\ tasks[id].pc = "pending"
         /\ req.job_id # id)
            => ~Has(jobs, id)

\* C8: a job for which cancellation was requested while it was Running never
\* ends Succeeded or Failed after the request was accepted, whichever stage
\* the runner was in.
C8_CancelledRunningNeverSucceedsOrFails ==
    \A id \in DOMAIN cancelled_as :
        (cancelled_as[id] = "running" /\ Has(jobs, id))
            => jobs[id].status \notin {"succeeded", "failed"}

\* C9: issue_token for a job whose stored token has not expired returns that
\* same token and leaves the stored row (its expiry included) as it is; once
\* the stored expiry has passed, issue_token deletes the old row and returns
\* a different, new token, and resolve on the old token returns absent.
C9_IssueIdempotentUntilExpiry ==
    (tres.op = "issue_token" /\ tres.pre # NoRow) =>
        IF fromisoformat(tres.pre.expires_at) >= tres.at
        THEN /\ tres.token = tres.pre.token
             /\ fetchone(tokens, "job_id", tres.job_id) = tres.pre
        ELSE /\ tres.token # tres.pre.token
             /\ \A i \in DOMAIN tokens : tokens[i].token # tres.pre.token
             /\ fetchone(tokens, "job_id", tres.job_id).token = tres.token
             /\ resolve_select(tokens, tres.pre.token, now) = "absent"

\* C9 witness: a second issue_token at the very instant of the stored expiry
\* returns the stored token.
C9_Witness ==
    /\ tres.op = "issue_token"
    /\ tres.pre # NoRow
    /\ fromisoformat(tres.pre.expires_at) = tres.at
    /\ tres.token = tres.pre.token

\* C9, the other case reached: an issue_token after the stored expiry minted
\* a new token.
C9_ExpiredReached ==
    /\ tres.op = "issue_token"
    /\ tres.pre # NoRow
    /\ fromisoformat(tres.pre.expires_at) < tres.at
    /\ tres.token # tres.pre.token

\* C10: in every reachable state of the registry each job id has at most one
\* token row, under any interleaving of issue_token, resolve, delete_token
\* and delete_for_job.
C10_OneTokenPerJob ==
    \A job_id \in JobIds :
        Cardinality({i \in DOMAIN tokens : tokens[i].job_id = job_id}) <= 1

\* C10 witness: a job's expired token was replaced while another job holds a
\* token and a resolve is between its SELECT and its DELETE.
C10_Witness ==
    /\ tres.op = "issue_token"
    /\ tres.pre # NoRow
    /\ tres.token # tres.pre.token
    /\ Len(tokens) = 2
    /\ rsv.pc = "delete"

\* C11: a mark_succeeded call with an archive below 100 KiB (102400 bytes)
\* leaves the job Failed with a non-empty error, no artifact path and no
\* download size; with an archive of 102400 bytes or more it leaves the job
\* Succeeded.
C11_SizeFloorDecidesOutcome ==
    [][\A j \in DOMAIN tasks :
          (tasks[j].pc = "a_succeed" /\ tasks'[j].pc = "a_final") =>
              IF tasks[j].size < 102400
              THEN /\ jobs'[j].status = "failed"
                   /\ jobs'[j].error \notin {NoneStr, ""}
                   /\ jobs'[j].artifact_path = NoneStr
                   /\ jobs'[j].download_size = NoneInt
              ELSE /\ jobs'[j].status = "succeeded"
                   /\ jobs'[j].artifact_path # NoneStr
                   /\ jobs'[j].download_size = tasks[j].size]_vars

\* One job demoted by the floor and another, of exactly 102400 bytes, Succeeded.
C11_Witness ==
    \E j, k \in DOMAIN jobs :
        /\ jobs[j].status = "failed"
        /\ jobs[j].error = "Final archive was too small; preview may not be rippable"
        /\ jobs[k].status = "succeeded"
        /\ jobs[k].download_size = 102400

\* C12: in every reachable state a job has an artifact path or a download
\* token only if its status is Succeeded, and a Cancelled job has neither.
C12_ArtifactAndTokenOnlyWhenSucceeded ==
    \A id \in DOMAIN jobs :
        /\ (jobs[id].artifact_path # NoneStr \/ jobs[id].download_token # NoneInt)
              => jobs[id].status = "succeeded"
        /\ jobs[id].status = "cancelled"
              => (jobs[id].artifact_path = NoneStr /\ jobs[id].download_token = NoneInt)

\* The registry holds a row for the job.
C13_HasToken(tb, id) == \E i \in 1..Len(tb) : tb[i].job_id = id

\* No step brings back the record of an id that was handed out and has left
\* the store, and no step adds a token row for an id whose record is gone.
C13_NothingRecreated ==
    \A id \in 1..(uuid_job - 1) :
        ~Has(jobs, id) =>
            /\ ~Has(jobs', id)
            /\ ~C13_HasToken(tokens, id) => ~C13_HasToken(tokens', id)

\* The runner's last step of the cancellation abort: remove() has returned.
C13_AbortHandled(j) == tasks[j].pc = "x_remove_tok" /\ tasks'[j].pc = "done"

\* C13: once the runner has handled a cancellation abort the job id is absent
\* from the store, its cancellation signal is gone, the registry holds no
\* token for it and its working directory has been deleted; no later step
\* re-creates the record or a token for the id.
C13_AbortLeavesNothingBehind ==
    [][/\ \A j \in DOMAIN tasks :
              C13_AbortHandled(j) =>
                  /\ ~Has(jobs', j)
                  /\ j \notin DOMAIN cancel_events'
                  /\ ~C13_HasToken(tokens', j)
                  /\ j \notin dirs'
       /\ C13_NothingRecreated]_vars

\* The runner's rmtree step of the cancellation abort.
C13_AbortRmtree(j) == tasks[j].pc = "x_tok" /\ tasks'[j].pc = "x_remove"

\* C13, amended: once the runner has handled a cancellation abort the job id
\* is absent from the store, its cancellation signal is gone and the registry
\* holds no token for it; the working directory is gone unless its deletion
\* failed, which the runner ignores; no later step re-creates the record or
\* a token for the id.
C13_AbortLeavesNoRecord ==
    [][/\ \A j \in DOMAIN tasks :
              /\ C13_AbortHandled(j) =>
                    /\ ~Has(jobs', j)
                    /\ j \notin DOMAIN cancel_events'
                    /\ ~C13_HasToken(tokens', j)
              /\ C13_AbortRmtree(j) => (j \notin dirs' \/ nfault' = nfault + 1)
       /\ C13_NothingRecreated]_vars

\* A job cancelled while Running whose abort the runner has handled before
\* any second cancel request or sweep could have removed it: record, signal,
\* token and directory are gone.
C13_Witness ==
    \E j \in DOMAIN tasks :
        /\ tasks[j].pc = "done"
        /\ j \in DOMAIN cancelled_as
        /\ cancelled_as[j] = "running"
        /\ now = 0
        /\ nfault = 0
        /\ ~Has(jobs, j)
        /\ j \notin DOMAIN cancel_events
        /\ ~C13_HasToken(tokens, j)
        /\ j \notin dirs

\* The sweeper's remove() of the job at the head of its stale list.
C14_SweepRemoves(id) ==
    sweep.pc = "rmtree" /\ Head(sweep.stale) = id /\ sweep'.pc = "remove_tok"

\* cancel_job's remove() of a job its owner asked to cancel.
C14_CancelRemoves(id) ==
    /\ req.pc = "k_remove" /\ req'.pc = "k_remove_tok"
    /\ req.job_id = id /\ req.session_id = jobs[id].session_id

\* A Succeeded or Failed job leaves the store in this step.
C14_TerminalLeaves(id) ==
    Has(jobs, id) /\ jobs[id].status \in {"succeeded", "failed"} /\ ~Has(jobs', id)

\* C14: a Succeeded or Failed job leaves the store only through the Sweeper,
\* and only once its updated_at is at or before now minus TTL; no request
\* path removes it before that.
C14_TerminalLeavesOnlyBySweep ==
    [][\A id \in JobIds :
          C14_TerminalLeaves(id) =>
              C14_SweepRemoves(id) /\ jobs[id].updated_at <= now - TTL]_vars

\* C14, amended: a Succeeded or Failed job leaves the store only through the
\* Sweeper, which removes only jobs that its listing found Succeeded or
\* Failed with updated_at at or before now minus TTL, or through a cancel
\* request of the job's owner, which removes such a job at any age.
C14_TerminalLeavesBySweepOrOwnerCancel ==
    [][/\ \A id \in JobIds :
              C14_TerminalLeaves(id) => (C14_SweepRemoves(id) \/ C14_CancelRemoves(id))
       /\ (sweep.pc = "idle" /\ sweep'.pc = "rmtree") =>
              \A i \in 1..Len(sweep'.stale) :
                  /\ Has(jobs, sweep'.stale[i])
                  /\ jobs[sweep'.stale[i]].status \in {"succeeded", "failed"}
                  /\ jobs[sweep'.stale[i]].updated_at <= now - TTL]_vars

\* The sweeper has removed the stale job at the head of its list while a
\* younger job stays in the store.
C14_Witness ==
    /\ sweep.pc = "remove_tok"
    /\ ~Has(jobs, Head(sweep.stale))
    /\ \E id \in DOMAIN jobs : jobs[id].updated_at > now - TTL

\* The ids in the sweeper's list.
C15_Listed(sw) == {sw.stale[i] : i \in 1..Len(sw.stale)}

\* C15: a sweeper tick lists exactly the jobs that are Succeeded or Failed
\* with updated_at <= now - TTL, removes the store record of each listed job
\* and deletes its directory, removing the record even when the deletion of
\* the directory fails, goes through the whole list, and changes no job
\* outside the list: none that is younger than the cutoff and none that is
\* Queued or Running.
C15_SweepRemovesExactlyTheStale ==
    [][/\ (sweep.pc = "idle" /\ sweep'.pc = "rmtree") =>
              /\ C15_Listed(sweep') =
                    {id \in DOMAIN jobs : /\ jobs[id].status \in {"succeeded", "failed"}
                                          /\ jobs[id].updated_at <= now - TTL}
              /\ jobs' = jobs /\ dirs' = dirs
       /\ (sweep.pc = "rmtree" /\ sweep'.pc = "remove_tok") =>
              /\ ~Has(jobs', Head(sweep.stale))
              /\ Head(sweep.stale) \notin dirs' \/ nfault' = nfault + 1
              /\ dirs \ dirs' \subseteq {Head(sweep.stale)}
              /\ \A k \in DOMAIN jobs \ {Head(sweep.stale)} :
                    Has(jobs', k) /\ jobs'[k] = jobs[k]
       /\ (sweep.pc = "remove_tok" /\ sweep'.pc = "rmtree") =>
              sweep'.stale = Tail(sweep.stale) /\ jobs' = jobs /\ dirs' = dirs
       /\ (sweep.pc = "remove_tok" /\ sweep'.pc = "idle") =>
              Len(sweep.stale) = 1 /\ jobs' = jobs /\ dirs' = dirs]_vars

\* The sweeper has removed the record of a stale job whose directory it could
\* not delete, and a Queued or Running job is still in the store.
C15_Witness ==
    /\ sweep.pc = "remove_tok"
    /\ ~Has(jobs, Head(sweep.stale))
    /\ Head(sweep.stale) \in dirs
    /\ \E id \in DOMAIN jobs : jobs[id].status \in ActiveStatuses

\* A download handler answers with the file in this step.
C16_Served ==
    /\ req.pc \in {"d_expiry", "t_expiry"}
    /\ req'.pc = "done"
    /\ req'.outcome.status_code = 200

\* C16: an archive is served only when the job, as read from the store by the
\* handler, exists with status Succeeded and an artifact path and its expiry
\* has not passed; for the fetch by job id the requesting session owns the
\* job; for the fetch by token the token resolved to a row of the registry
\* for that job whose expiry has not passed.
C16_ArchiveOnlyFromReadyUnexpiredJob ==
    [][/\ C16_Served =>
              /\ req.seen.status = "succeeded"
              /\ req.seen.artifact_path # NoneStr
              /\ req.seen.expires_at >= now
              /\ req.seen.job_id = req.job_id
              /\ req'.outcome.path = req.seen.artifact_path
              /\ req.op = "download_job_artifact" => req.seen.session_id = req.session_id
              /\ req.op = "download_job_by_token" => req.expires_at >= now
       /\ (req.pc \notin {"d_expiry", "t_expiry"} /\ req'.pc \in {"d_expiry", "t_expiry"}) =>
              /\ Has(jobs, req'.job_id)
              /\ req'.seen = jobs[req'.job_id]
       /\ (req.pc = "idle" /\ req'.pc = "t_snapshot") =>
              \E i \in 1..Len(tokens) :
                  /\ tokens[i].token = req'.token
                  /\ tokens[i].job_id = req'.job_id
                  /\ fromisoformat(tokens[i].expires_at) = req'.expires_at
                  /\ req'.expires_at >= now]_vars

\* An archive served by token on the very instant of its expiry, after time
\* has passed.
C16_Witness ==
    /\ req.pc = "done"
    /\ req.op = "download_job_by_token"
    /\ req.outcome.status_code = 200
    /\ now = req.expires_at

\* The fetch by token refuses an archive whose expiry has passed, and the
\* fetch by job id answers not-found to the owner of a job that is still in
\* the store.
C16_ExpiredRefused ==
    /\ req.pc = "done"
    /\ \/ /\ req.op = "download_job_by_token"
          /\ req.outcome.status_code = 404
          /\ req.outcome.message = "Download link has expired"
       \/ /\ req.op = "download_job_artifact"
          /\ req.outcome.status_code = 404
          /\ Has(jobs, req.job_id)
          /\ jobs[req.job_id].session_id = req.session_id

\* One of the four job-addressed requests arrives for a job that is absent
\* or owned by another session.
C17_ForeignOrAbsent ==
    /\ req.pc = "idle"
    /\ req'.pc # "idle"
    /\ req'.op \in {"get_job", "get_job_logs", "download_job_artifact", "cancel_job"}
    /\ NotOwn(jobs, req'.job_id, req'.session_id)

\* C17: a fetch-job, fetch-logs, download-by-job-id or cancel request for a job
\* owned by another session gets exactly the not-found reply that a request
\* for a missing job id gets, a reply that depends on the requested id alone,
\* and leaves the store and the registry unchanged.
C17_ForeignLooksAbsent ==
    [][C17_ForeignOrAbsent =>
          /\ req'.pc = "done"
          /\ req'.outcome = JobNotFound(req'.job_id)
          /\ jobs' = jobs
          /\ cancel_events' = cancel_events
          /\ tokens' = tokens]_vars

\* A cancel request for another session's job has been answered not-found
\* while the job is in the store.
C17_Witness ==
    /\ req.pc = "done"
    /\ req.op = "cancel_job"
    /\ Has(jobs, req.job_id)
    /\ jobs[req.job_id].session_id # req.session_id
    /\ req.outcome.status_code = 404

\* The runner of job j moves from pc a to pc b in this step.
C18_Moves(j, a, b) == tasks[j].pc = a /\ tasks'[j].pc = b

\* The runner of job j reads the exit code of the mirroring tool with no
\* cancellation requested.
C18_ExitCodeRead(j) ==
    tasks[j].pc = "m_ret_check" /\ tasks'[j].pc # "m_ret_check"
        /\ ~is_cancelled(cancel_events, j)

\* C18: with no cancellation requested, exit code 8 of the mirroring tool
\* makes the runner append one warning entry and go on to the archive stage,
\* where the size floor alone decides between Succeeded and Failed; exit
\* code 0 goes on to the archive stage with no entry appended; any other
\* exit code, and a missing tool binary, take the failure path, each with its
\* own error message, and the failure path leaves the job Failed with that
\* message.
C18_ExitCodeDecidesPath ==
    [][\A j \in DOMAIN tasks :
          /\ (C18_ExitCodeRead(j) /\ tasks[j].retcode = 8) =>
                 tasks'[j].pc = "m_warn" /\ jobs' = jobs
          /\ (tasks[j].pc = "m_warn" /\ tasks'[j].pc # "m_warn" /\ Has(jobs, j)) =>
                 /\ tasks'[j].pc = "a_check0"
                 /\ jobs'[j].next_cursor = jobs[j].next_cursor + 1
                 /\ jobs'[j].logs[Len(jobs'[j].logs)].level = "warn"
                 /\ jobs'[j].status = jobs[j].status
          /\ (C18_ExitCodeRead(j) /\ tasks[j].retcode = 0) =>
                 tasks'[j].pc = "a_check0" /\ jobs' = jobs
          /\ (C18_ExitCodeRead(j) /\ tasks[j].retcode \notin {0, 8}) =>
                 /\ tasks'[j].pc = "e_log"
                 /\ tasks'[j].err = "wget exited with code 1"
                 /\ jobs' = jobs
          /\ (C18_Moves(j, "m_log_run", "e_log") /\ Has(jobs, j)) =>
                 tasks'[j].err = "wget is required but not installed or not in PATH"
          /\ (C18_Moves(j, "a_check0", "a_log") \/ C18_Moves(j, "a_log", "a_succeed")) =>
                 (Has(jobs, j) => jobs'[j].status = jobs[j].status)
          /\ (C18_Moves(j, "a_succeed", "a_final") /\ tasks[j].size >= 102400) =>
                 jobs'[j].status = "succeeded"
          /\ (C18_Moves(j, "e_log", "e_mark") \/ C18_Moves(j, "e_mark", "done")) =>
                 (Has(jobs, j) =>
                     /\ tasks[j].pc = "e_mark" =>
                           jobs'[j].status = "failed" /\ jobs'[j].error = tasks[j].err
                     /\ tasks[j].pc = "e_log" =>
                           jobs'[j].logs[Len(jobs'[j].logs)].message = tasks[j].err)]_vars

\* A job is Succeeded with the warning of exit code 8 still in its log.
C18_Witness ==
    \E j \in DOMAIN jobs :
        /\ jobs[j].status = "succeeded"
        /\ \E i \in 1..Len(jobs[j].logs) :
              /\ jobs[j].logs[i].level = "warn"
              /\ jobs[j].logs[i].message =
                    "wget completed with HTTP errors (some assets may be missing)"

\* A job ends Failed with the message of the tool's exit code.
C18_FailuresReached ==
    \E j \in DOMAIN jobs :
        /\ jobs[j].status = "failed"
        /\ jobs[j].error = "wget exited with code 1"

\* The input URL that carries the marker "full_screen_preview".
C19_MarkerUrl == "https://preview.themeforest.net/item/x/full_screen_preview/1"

\* The driver openings of a whole run, in order.
C19_Openings(theme_url) ==
    IF theme_url = C19_MarkerUrl THEN <<"Resolve full frame URL">>
    ELSE <<"Resolve preview URL", "Resolve full frame URL">>

\* The runner is past both resolution stages.
C19_Resolved(t) ==
    t.pc \in {"m_check0", "m_log_run", "m_line_check", "m_line_log", "m_ret_check",
              "m_warn", "a_check0", "a_log", "a_succeed", "a_final"}

\* In every state a run has opened the driver for a prefix of its stages,
\* for all of them once it is past the resolution, and a run on a marker URL
\* is never in the preview-resolution stage.
C19_OpenedSoFar ==
    \A j \in DOMAIN tasks :
        LET t == tasks[j]
        IN  t.pc \notin {"pending", "done"} =>
               /\ Len(t.opened) <= Len(C19_Openings(t.theme_url))
               /\ t.opened = SubSeq(C19_Openings(t.theme_url), 1, Len(t.opened))
               /\ C19_Resolved(t) => t.opened = C19_Openings(t.theme_url)
               /\ t.theme_url = C19_MarkerUrl =>
                     t.pc \notin {"p_check0", "p_open", "p_check", "p_func"}

\* C19: when the input URL contains the marker the runner skips the
\* preview-resolution stage, appends an entry that records the skip and opens
\* the driver exactly once in the whole run, for the frame resolution;
\* otherwise it opens the driver once for the preview resolution and then
\* once for the frame resolution.
C19_DriverOpenedOncePerStage ==
    [][/\ C19_OpenedSoFar'
       /\ \A j \in DOMAIN tasks :
             /\ (tasks[j].pc = "r_log_accept" /\ tasks'[j].pc \notin {"r_log_accept", "e_log"}) =>
                    tasks'[j].pc = IF tasks[j].theme_url = C19_MarkerUrl
                                   THEN "r_log_skip" ELSE "p_check0"
             /\ (tasks[j].pc = "r_log_skip" /\ tasks'[j].pc # "r_log_skip") =>
                    /\ tasks'[j].pc = "f_check0"
                    /\ Has(jobs', j)
                    /\ jobs'[j].logs[Len(jobs'[j].logs)].message =
                          "Input URL already points to preview; skipping lookup"
                    /\ jobs'[j].next_cursor = jobs[j].next_cursor + 1]_vars

\* A run on a marker URL has reached the mirroring with one driver opening.
C19_Witness ==
    \E j \in DOMAIN tasks :
        /\ tasks[j].pc = "m_log_run"
        /\ tasks[j].theme_url = C19_MarkerUrl
        /\ tasks[j].opened = <<"Resolve full frame URL">>

\* A run on an ordinary URL has reached the mirroring with two openings.
C19_BothStagesReached ==
    \E j \in DOMAIN tasks :
        /\ tasks[j].pc = "m_log_run"
        /\ tasks[j].theme_url # C19_MarkerUrl
        /\ tasks[j].opened = <<"Resolve preview URL", "Resolve full frame URL">>

\* The tasks a pool worker is running.
C20_Busy(ts) == {k \in DOMAIN ts : ts[k].pc \notin {"pending", "done"}}

\* C20: the number of jobs with status Running never exceeds max_workers, and
\* no more than max_workers tasks run at a time; a creation request that has
\* passed the capacity and session checks is accepted whether or not a worker
\* is free, and while its task waits for a worker the job is not Running: it
\* stays Queued (or Cancelled, if its owner cancels it) until a worker that
\* has become free takes the task.
C20_PoolBoundsRunningJobs ==
    [][/\ Cardinality({id \in DOMAIN jobs' : jobs'[id].status = "running"}) <= MaxWorkers
       /\ Cardinality(C20_Busy(tasks')) <= MaxWorkers
       /\ \A j \in DOMAIN tasks' :
             (tasks'[j].pc = "pending" /\ Has(jobs', j)) =>
                 /\ jobs'[j].status \in {"queued", "cancelled"}
                 /\ jobs'[j].status = "cancelled" => Has(cancelled_as', j)
       /\ \A j \in DOMAIN tasks :
             (tasks[j].pc = "pending" /\ tasks'[j].pc # "pending") =>
                 Cardinality(C20_Busy(tasks)) < MaxWorkers
       /\ (req.pc = "c_log" /\ req'.pc = "c_snapshot") =>
             /\ req.job_id \in DOMAIN tasks'
             /\ tasks'[req.job_id].pc = "pending"
       /\ (req.pc = "c_snapshot" /\ req'.pc = "done" /\ Has(jobs, req.job_id)) =>
             req'.outcome = 202]_vars

\* A creation request has been accepted (202) with its job Queued while every
\* worker is busy with another job.
C20_Witness ==
    /\ req.pc = "done"
    /\ req.op = "create"
    /\ req.outcome = 202
    /\ Has(jobs, req.job_id)
    /\ jobs[req.job_id].status = "queued"
    /\ tasks[req.job_id].pc = "pending"
    /\ Cardinality(C20_Busy(tasks)) = MaxWorkers

\* C21: a cancel request for a job it sees Succeeded or Failed answers 204
\* with the job gone from the store; from then on every cancel request for
\* that id, by the same session or any other, answers 404 JOB_NOT_FOUND in
\* its first step and leaves the job records, the cancellation signals and
\* the token table as they were.
C21_Terminal(id) ==
    /\ Has(cancelled_as, id)
    /\ cancelled_as[id].seen \in {"succeeded", "failed"}

C21_CancelOfTerminalIsFinal ==
    [][/\ (req.pc = "k_remove_tok" /\ req'.pc = "done" /\ req.seen \in {"succeeded", "failed"})
            => /\ req'.outcome.status_code = 204
               /\ ~Has(jobs', req.job_id)
       /\ \A id \in JobIds :
            (C21_Terminal(id) /\ req.pc = "idle" /\ req'.op = "cancel_job" /\ req'.job_id = id)
            => /\ req'.pc = "done"
               /\ req'.outcome = JobNotFound(id)
               /\ UNCHANGED <<jobs, cancel_events, tokens>>]_vars

\* The owner's second cancel request for a job that its first one removed as
\* Succeeded or Failed has been answered 404.
C21_Witness ==
    /\ req.op = "cancel_job"
    /\ req.pc = "done"
    /\ C21_Terminal(req.job_id)
    /\ cancelled_as[req.job_id].session_id = req.session_id
    /\ req.outcome.status_code = 404

\* C22: when a stage of job j's runner has raised (driver failed to start,
\* element not found in time, mirroring tool missing or exiting with a hard
\* failure), the handler appends the error text to j's log as an "error"
\* entry and then marks j Failed with that text in its error field; j stays
\* Failed while it is in the store; the task, once finished, never leaves
\* that position; and the two steps leave the record of every other job, the
\* cancellation signal of every job and the token rows of every other job as
\* they were.
C22_StageErrors ==
    {"Chrome failed to start", "Resolve preview URL failed", "Resolve full frame URL failed",
     "wget is required but not installed or not in PATH", "wget exited with code 1"}

C22_Handling(j) ==
    /\ j \in DOMAIN tasks
    /\ tasks[j].pc \in {"e_log", "e_mark"}
    /\ tasks[j].err \in C22_StageErrors
    /\ tasks'[j] # tasks[j]

C22_OthersUntouched(j) ==
    /\ \A k \in DOMAIN jobs \ {j} : Has(jobs', k) /\ jobs'[k] = jobs[k]
    /\ cancel_events' = cancel_events
    /\ \A k \in JobIds \ {j} :
          SelectSeq(tokens', LAMBDA row : row.job_id = k)
            = SelectSeq(tokens, LAMBDA row : row.job_id = k)

C22_StageFailureIsContained ==
    [][\A j \in JobIds :
          /\ C22_Handling(j) =>
                /\ Has(jobs, j) /\ Has(jobs', j)
                /\ C22_OthersUntouched(j)
                /\ IF tasks[j].pc = "e_log"
                   THEN /\ tasks'[j].pc = "e_mark"
                        /\ jobs'[j].logs[Len(jobs'[j].logs)].level = "error"
                        /\ jobs'[j].logs[Len(jobs'[j].logs)].message = tasks[j].err
                        /\ jobs'[j].status = jobs[j].status
                   ELSE /\ tasks'[j].pc = "done"
                        /\ jobs'[j].status = "failed"
                        /\ jobs'[j].error = tasks[j].err
                        /\ jobs'[j].logs = jobs[j].logs
          /\ (Has(jobs, j) /\ jobs[j].status = "failed" /\ Has(jobs', j))
                => jobs'[j].status = "failed"
          /\ (j \in DOMAIN tasks /\ tasks[j].pc = "done") => tasks'[j].pc = "done"]_vars

\* A job has ended Failed on a stage failure, its runner finished, while the
\* store holds another job.
C22_Witness ==
    \E j \in DOMAIN jobs :
        /\ jobs[j].status = "failed"
        /\ jobs[j].error \in C22_StageErrors
        /\ tasks[j].pc = "done"
        /\ \E i \in 1..Len(jobs[j].logs) :
              jobs[j].logs[i].level = "error" /\ jobs[j].logs[i].message = jobs[j].error
        /\ \E k \in DOMAIN jobs : k # j

\* C23: in run(), a task enters mark_running, the preview lookup, the frame
\* lookup, the mirroring or the archiving only by a step of
\* _ensure_not_cancelled that found the job's cancellation signal not set;
\* such a check that finds the signal set sends the task to the
\* "except JobCancelled" handler, and from there the task never enters a
\* stage again.
C23_StageStarts == {"r_mark_running", "p_open", "f_open", "m_log_run", "a_log"}

C23_CancelPath == {"x_log", "x_mark", "x_tok", "x_remove", "x_remove_tok", "done"}

C23_CheckBeforeEveryStage ==
    [][\A j \in DOMAIN tasks :
          /\ (tasks'[j].pc \in C23_StageStarts /\ tasks'[j].pc # tasks[j].pc)
                => /\ tasks[j].pc \in DOMAIN CheckNext
                   /\ CheckNext[tasks[j].pc] = tasks'[j].pc
                   /\ ~is_cancelled(cancel_events, j)
          /\ (tasks[j].pc \in DOMAIN CheckNext /\ tasks'[j] # tasks[j]
                 /\ is_cancelled(cancel_events, j))
                => tasks'[j].pc = "x_log"
          /\ tasks[j].pc \in C23_CancelPath => tasks'[j].pc \in C23_CancelPath]_vars

\* A Running job stopped at a stage boundary: the signal is set, the task is
\* at the cancellation handler, and no driver was opened for it.
C23_Witness ==
    \E j \in DOMAIN tasks :
        /\ tasks[j].pc = "x_log"
        /\ is_cancelled(cancel_events, j)
        /\ Has(jobs, j)
        /\ jobs[j].status = "running"
        /\ tasks[j].opened = <<>>

\* A task stopped after its subprocess exited with code 0, by the test that
\* follows wait() or by the check before the archiving: no archive was written.
C23_StoppedBeforeArchive ==
    \E j \in DOMAIN tasks :
        /\ tasks[j].pc = "x_log"
        /\ tasks[j].retcode = 0
        /\ tasks[j].size = NoneInt
        /\ Len(tasks[j].opened) >= 1

\* C24: a job whose cancellation was requested while its status was Queued
\* never has status Running afterwards, and its task never is in the driver
\* stages, the mirroring or the archiving.
C24_CancelledQueued(j) == Has(cancelled_as, j) /\ cancelled_as[j] = "queued"

C24_InStage(j) ==
    /\ j \in DOMAIN tasks
    /\ tasks[j].pc \in {"p_open", "p_check", "p_func", "f_open", "f_check", "f_func",
                         "m_log_run", "m_line_check", "m_line_log", "m_ret_check", "m_warn",
                         "a_log", "a_succeed", "a_final"}

C24_QueuedCancelNeverRuns ==
    \A j \in JobIds :
        C24_CancelledQueued(j) =>
            /\ Has(jobs, j) => jobs[j].status # "running"
            /\ ~C24_InStage(j)

\* The second half alone: no stage of such a job is ever started.
C24_QueuedCancelStartsNoStage ==
    \A j \in JobIds : C24_CancelledQueued(j) => ~C24_InStage(j)

\* A worker has picked up the task of a job cancelled while Queued and has
\* been turned away by a cancellation check.
C24_TurnedAway ==
    \E j \in DOMAIN tasks :
        /\ C24_CancelledQueued(j)
        /\ tasks[j].pc = "x_log"

\* C25: _simplify_wget_line returns at most one entry per line.  On the line
\* without its surrounding whitespace: a line beginning with the error marker
\* (in any case) gives one "error" entry whose message is that line; else a
\* fetch-start line "--...--<url>" gives one "info" entry "Fetching <label of
\* url>" and the URL becomes the remembered one; else a line beginning
\* "saving to:" (in any case) gives one "info" entry "Saved <label of the
\* remembered URL>", or none when no URL is remembered; else a line holding
\* "not retrieving" (in any case) gives one "warn" entry with that line; every
\* other line, a line beginning "--" without a URL included, gives none; and
\* the remembered URL changes on a fetch-start line only.
C25_Trimmed(raw) ==
    LET n == Len(raw)
        ab == CHOOSE ab \in (0..n) \X (0..n) :
                /\ ab[1] + ab[2] <= n
                /\ \A k \in 1..ab[1] : raw[k] = Space
                /\ \A k \in (n - ab[2] + 1)..n : raw[k] = Space
                /\ \/ ab[1] + ab[2] = n
                   \/ raw[ab[1] + 1] # Space /\ raw[n - ab[2]] # Space
    IN  SubSeq(raw, ab[1] + 1, n - ab[2])

C25_IsError(t) == t[1] = "Error"

C25_SecondDashes(t) ==
    {j \in 2..Len(t) : t[j] = "--" /\ \A k \in 2..(j - 1) : t[k] # "--"}

C25_FetchUrl(t) ==
    IF t[1] = "--" /\ C25_SecondDashes(t) # {}
    THEN C25_Trimmed(SubSeq(t, (CHOOSE j \in C25_SecondDashes(t) : TRUE) + 1, Len(t)))
    ELSE <<>>

C25_IsSaving(t) == t[1] = "Saving to:"

C25_IsSkipped(t) == \E i \in 1..Len(t) : t[i] = "Not retrieving"

C25_Same == lresp.url = lresp.last_url

C25_OneEntryPerLine ==
    lresp.op = "_simplify_wget_line" =>
        LET t == C25_Trimmed(lresp.raw_line)
            e == lresp.entries
        IN  /\ Len(e) <= 1
            /\ IF t = <<>> THEN e = <<>> /\ C25_Same
               ELSE IF C25_IsError(t) THEN e = << <<"error", t>> >> /\ C25_Same
               ELSE IF C25_FetchUrl(t) # <<>>
               THEN /\ e = << <<"info", <<"Fetching">> \o resource_label(C25_FetchUrl(t))>> >>
                    /\ lresp.url = C25_FetchUrl(t)
               ELSE IF t[1] = "--" THEN e = <<>> /\ C25_Same
               ELSE IF C25_IsSaving(t)
               THEN /\ IF lresp.last_url = <<>> THEN e = <<>>
                       ELSE e = << <<"info", <<"Saved">> \o resource_label(lresp.last_url)>> >>
                    /\ C25_Same
               ELSE IF C25_IsSkipped(t) THEN e = << <<"warn", t>> >> /\ C25_Same
               ELSE e = <<>> /\ C25_Same

\* A transcript "saving to" line has given "Saved a.css" for the URL that an
\* earlier fetch-start line left remembered.
C25_Witness ==
    /\ lresp.op = "_simplify_wget_line"
    /\ lresp.raw_line = <<"Saving to:", Space, "x", Space>>
    /\ lresp.last_url = <<"https://h/css/a.css">>
    /\ lresp.entries = << <<"info", <<"Saved", "a.css">> >> >>

\* The other cases: a fetch-start line replacing a remembered URL, an error
\* line in mixed case between whitespace, a skipped fetch, a "saving to" line
\* with nothing remembered, a "--" line without a URL.
C25_FetchReplaces ==
    /\ lresp.op = "_simplify_wget_line"
    /\ lresp.raw_line = <<"--", "x", "--", Space, "https://h/", Space>>
    /\ lresp.last_url = <<"https://h/css/a.css">>
    /\ lresp.url = <<"https://h/">>
    /\ lresp.entries = << <<"info", <<"Fetching", "h">> >> >>

C25_ErrorAfterWhitespace ==
    /\ lresp.op = "_simplify_wget_line"
    /\ lresp.raw_line = <<Space, "Error", Space>>
    /\ lresp.entries = << <<"error", <<"Error">> >> >>

C25_Skipped ==
    /\ lresp.op = "_simplify_wget_line"
    /\ lresp.raw_line = <<"x", Space, "Not retrieving", Space>>
    /\ lresp.entries = << <<"warn", <<"x", Space, "Not retrieving">> >> >>

C25_SavingWithoutUrl ==
    /\ lresp.op = "_simplify_wget_line"
    /\ C25_IsSaving(lresp.raw_line)
    /\ lresp.last_url = <<>>
    /\ lresp.entries = <<>>

C25_DashesWithoutUrl ==
    /\ lresp.op = "_simplify_wget_line"
    /\ lresp.raw_line = <<"--", "Not retrieving">>
    /\ lresp.entries = <<>>

\* ---------------------------------------------------------------- C26
\* The tokens the registry holds for a job.
C26_TokensOf(tb, id) == {tb[i].token : i \in {k \in DOMAIN tb : tb[k].job_id = id}}

\* The calls of remove(id) and mark_cancelled(id) that have left the lock
\* section and not yet deleted the tokens.
C26_Pending(q, id) == {k \in DOMAIN q : q[k].job_id = id}

\* An id that no record is held for and that no call is still working on
\* has no cancellation signal and no token.
C26_NothingLeft ==
    \A id \in CallIds :
        (~Has(jobs, id) /\ C26_Pending(queue, id) = {}) =>
            /\ ~Has(cancel_events, id)
            /\ C26_TokensOf(tokens, id) = {}

\* A step in which a call of remove returns.
C26_RemoveReturns == Len(queue') < Len(queue) /\ lresp'.op = "remove"

\* A step in which mark_running, mark_succeeded, mark_failed, mark_cancelled
\* or append_log is called on an id that the store holds no record for.
C26_CallOnAbsent ==
    /\ lresp' # lresp
    /\ queue' = queue
    /\ lresp'.op \in {"mark_running", "mark_succeeded", "mark_failed", "mark_cancelled",
                      "append_log"}
    /\ ~Has(jobs, lresp'.job_id)

\* What a call leaves of the records, the signals, the tokens and the token
\* counter.
C26_StoreSame ==
    /\ jobs' = jobs
    /\ cancel_events' = cancel_events
    /\ tokens' = tokens
    /\ uuid_tok' = uuid_tok

C26_OverlappingRemoves ==
    /\ lresp.op = "remove"
    /\ ~lresp.found
    /\ \E k \in DOMAIN queue : /\ queue[k].job_id = lresp.job_id
                               /\ queue[k].op = "remove"
                               /\ queue[k].found
    /\ uuid_tok = 2
    /\ tokens = <<>>

\* ---------------------------------------------------------------- C27
\* A step in which the caller writes to the value the last call returned.
C27_CallerWrites == ~lresp.mutated /\ lresp'.mutated

\* C27: a write by the caller to a value the store returned (the Job of
\* create or snapshot, the entries of get_logs_since or tail, the LogEntry of
\* append_log) leaves every record of the store, and so what snapshot,
\* get_logs_since and tail return afterwards, as it was.
C27_ReturnedValuesAreCopies == [][C27_CallerWrites => jobs' = jobs]_vars

\* The caller has written to the LogEntry that append_log returned, and the
\* job's retained log holds the written text.
C27_LiveEntryWritten ==
    /\ lresp.op = "append_log"
    /\ lresp.mutated
    /\ Has(jobs, lresp.job_id)
    /\ \E i \in DOMAIN jobs[lresp.job_id].logs :
         jobs[lresp.job_id].logs[i].message = "mutated"

\* The caller has written to the Job that snapshot returned, and the record
\* is as it was.
C27_CopyWritten ==
    /\ lresp.op = "snapshot"
    /\ lresp.mutated
    /\ Has(jobs, lresp.job_id)
    /\ jobs[lresp.job_id].status = "queued"
    /\ lresp.ret.job[1].status = "mutated"

\* ---------------------------------------------------------------- C28
\* The second clause of has_more: the last entry returned is not the newest.
C28_SecondClause(entries, next_cursor) ==
    entries # <<>> /\ entries[Len(entries)].cursor < next_cursor - 1

\* C28: the retained log of a job holds at most log_limit entries, their
\* cursors are consecutive integers that end at next_cursor - 1, and so for
\* every since the second clause of has_more is false and has_more is the
\* first clause alone (entries returned, the first of them after since).
C28_RetainedLogIsATail ==
    /\ \A id \in DOMAIN jobs :
         LET job == jobs[id]
         IN  /\ Len(job.logs) <= LogLimit
             /\ \A i \in DOMAIN job.logs :
                  job.logs[i].cursor = job.next_cursor - 1 - (Len(job.logs) - i)
             /\ \A since \in 0..(MaxAppends + 1) :
                  LET r == get_logs_since(jobs, id, since)
                  IN  /\ ~C28_SecondClause(r.entries, r.next_cursor)
                      /\ r.has_more = (r.entries # <<>> /\ r.entries[1].cursor > since)
    /\ lresp.op = "get_logs_since" =>
         /\ ~C28_SecondClause(lresp.entries, lresp.next_cursor)
         /\ lresp.has_more = (lresp.entries # <<>> /\ lresp.entries[1].cursor > lresp.since)

\* The log has been trimmed, and a read from before the oldest retained
\* entry got every retained entry and has_more.
C28_Witness ==
    /\ lresp.op = "get_logs_since"
    /\ lresp.next_cursor > LogLimit
    /\ Len(lresp.entries) = LogLimit
    /\ lresp.has_more
    /\ lresp.entries[Len(lresp.entries)].cursor = lresp.next_cursor - 1

\* ---------------------------------------------------------------- C29
\* The retained log of the job holds the runner's final info entry.
C29_SaysCompleted(job) ==
    \E i \in DOMAIN job.logs : /\ job.logs[i].level = "info"
                               /\ job.logs[i].message = "Job completed successfully"

\* C29: the entry "Job completed successfully" is only ever in the log of a
\* job whose status is Succeeded.
C29_CompletedMeansSucceeded ==
    \A id \in DOMAIN jobs : C29_SaysCompleted(jobs[id]) => jobs[id].status = "succeeded"

\* The only job that says it completed without being Succeeded is the one
\* that the archive size floor made Failed; its log ends with that entry.
C29_OnlyTheSizeFloor ==
    \A id \in DOMAIN jobs :
        (C29_SaysCompleted(jobs[id]) /\ jobs[id].status # "succeeded") =>
            /\ jobs[id].status = "failed"
            /\ jobs[id].error = "Final archive was too small; preview may not be rippable"

\* A job made Failed by the size floor whose last log entry is the success
\* message and whose log holds no error entry.
C29_FailedSaysCompleted ==
    \E id \in DOMAIN jobs :
        /\ jobs[id].status = "failed"
        /\ jobs[id].logs # <<>>
        /\ jobs[id].logs[Len(jobs[id].logs)].message = "Job completed successfully"
        /\ \A i \in DOMAIN jobs[id].logs : jobs[id].logs[i].level # "error"

\* ---------------------------------------------------------------- C30
\* The thread is at "with self._lock:" of the given lock, which another
\* thread holds.
C30_WaitsFor(t, lock) ==
    /\ tasks[t].op # "idle"
    /\ LockOps[tasks[t].op][tasks[t].i] = <<"acquire", lock>>
    /\ \E u \in Threads : lock \in tasks[u].held

\* A thread that holds the registry's lock never waits for the store's lock.
C30_RegistryHolderNeverWaits ==
    \A t \in Threads : "registry" \in tasks[t].held => ~C30_WaitsFor(t, "store")

\* C30: the store's lock and the registry's lock never deadlock: no thread
\* that holds the registry's lock is waiting for the store's lock, and every
\* thread that has reached an acquisition of either lock gets the lock.
C30_NoDeadlock ==
    /\ []C30_RegistryHolderNeverWaits
    /\ \A t \in Threads : \A lock \in {"store", "registry"} :
         (tasks[t].op # "idle" /\ LockOps[tasks[t].op][tasks[t].i] = <<"acquire", lock>>)
             ~> (lock \in tasks[t].held)

\* The runner, inside mark_succeeded with the store's lock held, waits for
\* the registry's lock, which the handler holds in resolve, while the
\* cleanup thread waits for the store's lock in remove.
C30_Witness ==
    /\ tasks["runner"].op = "mark_succeeded"
    /\ "store" \in tasks["runner"].held
    /\ C30_WaitsFor("runner", "registry")
    /\ tasks["handler"].op = "resolve"
    /\ "registry" \in tasks["handler"].held
    /\ tasks["sweeper"].op = "remove"
    /\ C30_WaitsFor("sweeper", "store")

\* ---------------------------------------------------------------- C31
\* The reply of a cancel_job or get_job_logs request is about to go out.
C31_Replied == req.pc = "done" /\ req.op \in {"cancel_job", "get_job_logs"}

\* C31: a cancel_job or get_job_logs request ends with a success (200, 204)
\* or a not-found (404) reply, whatever the runner and the cleanup thread do
\* to the job after the handler's snapshot.
C31_NoUnhandledMissingJob ==
    C31_Replied => req.outcome.status_code \in {200, 204, 404}

\* A request of the two handlers ends otherwise only when its snapshot found
\* the session's own job and the job was gone at append_log (cancel_job) or
\* at get_logs_since (get_job_logs); a cancel_job that saw a finished job
\* and called remove always ends 204.
C31_OnlyWhenRemovedInBetween ==
    [][/\ (req'.pc = "done" /\ req.pc \in {"l_logs", "k_log"}
             /\ req'.outcome.status_code \notin {200, 204, 404}) =>
            /\ ~Has(jobs, req.job_id)
            /\ req'.outcome.status_code = 500
       /\ (req'.pc = "done" /\ req.pc \in {"l_logs", "k_log"} /\ Has(jobs, req.job_id)) =>
            req'.outcome.status_code \in {200, 204}
       /\ (req'.pc = "done" /\ req.pc = "k_remove_tok") =>
            req'.outcome.status_code = 204]_vars

\* get_job_logs found the job at its snapshot and ends in the KeyError of
\* get_logs_since.
C31_LogsFails ==
    /\ req.pc = "done"
    /\ req.op = "get_job_logs"
    /\ req.outcome.status_code = 500
    /\ ~Has(jobs, req.job_id)

\* cancel_job found the job Queued or Running at its snapshot and ends in the
\* KeyError of append_log.
C31_CancelFails ==
    /\ req.pc = "done"
    /\ req.op = "cancel_job"
    /\ req.seen \in ActiveStatuses
    /\ req.outcome.status_code = 500
    /\ ~Has(jobs, req.job_id)

====
